---- MODULE Spec2Model ----
(***************************************************************************)
(* State-machine model of the malloc/free interposer of                    *)
(* stateless-sampling/sampler/sampler.c (and of sampler_timed.c, whose     *)
(* wrapper logic is the same): one-time initialisation, the thread-local   *)
(* re-entrancy guard, the Poisson-by-bytes and stateless-hash samplers,    *)
(* the selected-address sets and the emitted record stream.                *)
(*                                                                         *)
(* Each thread has a stack of wrapper activations.  An activation is       *)
(* pushed by a call of malloc/free that passes the guard check and does    *)
(* not return at once; library code run by an activation (dlsym, getenv,   *)
(* printf) may call malloc/free again on the same thread.                  *)
(***************************************************************************)
EXTENDS Integers, Sequences, FiniteSets, TLC

(***************************************************************************)
(* Program constants.                                                      *)
(***************************************************************************)
NULL == 0
DEFAULT_POISSON_MEAN == 4096
DEFAULT_HASH_MASK == 255
SAMPLED_SET_SIZE == 1048576
MAX_PROBE == 100
WORD_BITS == 64

(***************************************************************************)
(* Bounds of the model.                                                    *)
(***************************************************************************)
\* top-level calls the threads t1 and t2 of Spec may make
MaxCalls == 2
MaxCalls2 == 1
\* top-level calls of the single thread of SpecSeq
MaxSeqCalls == 7
\* top-level calls of the single thread of SpecEnv
MaxEnvCalls == 2
\* calls library code may make from inside one thread's activations
MaxNested == 1
\* geometric draws one call of sample_poisson may consume
MaxDraws == 2
MaxSatCalls == 5
\* top-level calls of each thread of SpecTimed
MaxTimedCalls == 1
MaxLoopCalls == 2
MaxLoops == 3
MaxPrior == 3

Threads == {"t1", "t2"}
NoThread == "none"

\* Addresses the host allocator hands out.  1024 hashes to a value whose low
\* eight bits are zero, 134218752 = 1024 + 2^27 does not; both have the same
\* home slot in the selected-address sets.
Addrs == {1024, 134218752}
\* An address owned by library code (obtained from calloc/realloc, which are
\* not interposed), which that code may pass to free.
LibAddrs == {4096}
\* Addresses that all have home slot 64 in the selected-address sets: one more
\* than a probe chain has slots.
SatAddrs == {1024 + k * 16777216 : k \in 0 .. MAX_PROBE}
\* Request sizes.
Sizes == {0, 3}
\* Values draw_geometric_bytes may return (a subset of 0 .. 36*mean).
Draws == {0, 2}
\* The same for the runs in which the sampling loop is taken draw by draw.
LoopDraws == {0, 1, 2}
\* Values of SAMPLER_SCHEME ("" is unset) and of SAMPLER_POISSON_MEAN_BYTES.
EnvSchemes == {"", "NONE", "STATELESS_HASH", "POISSON", "COMBINED", "HYBRID",
               "PAGE_HASH", "bogus"}
EnvMeans == {"", "1", "2", "0", "-3", "abc"}

(***************************************************************************)
(* 64-bit words as bit vectors (bit 0 is the least significant).  The      *)
(* model's addresses are below 2^31, so bits 31..63 of an address are 0.   *)
(***************************************************************************)
Bits == 0 .. (WORD_BITS - 1)

RECURSIVE Pow2(_)
Pow2(n) == IF n = 0 THEN 1 ELSE 2 * Pow2(n - 1)

ToWord(n) == [i \in Bits |-> IF i < 31 THEN (n \div Pow2(i)) % 2 ELSE 0]
Shr(w, k) == [i \in Bits |-> IF i + k < WORD_BITS THEN w[i + k] ELSE 0]
Shl(w, k) == [i \in Bits |-> IF i >= k THEN w[i - k] ELSE 0]
Xor(a, b) == [i \in Bits |-> (a[i] + b[i]) % 2]
And(a, b) == [i \in Bits |-> a[i] * b[i]]
IsZero(w) == \A i \in Bits : w[i] = 0

\* h ^= h >> 12; h ^= h << 25; h ^= h >> 27
XorShift(w) ==
    LET h1 == Xor(w, Shr(w, 12))
        h2 == Xor(h1, Shl(h1, 25))
    IN  Xor(h2, Shr(h2, 27))

\* (h & DEFAULT_HASH_MASK) == 0
MaskedHashIsZero(ptr) ==
    IsZero(And(XorShift(ToWord(ptr)), ToWord(DEFAULT_HASH_MASK)))

\* The hash decision of every address of the model, computed once.
HashTable == [a \in Addrs \cup LibAddrs \cup SatAddrs |-> MaskedHashIsZero(a)]
HashHit(ptr) == HashTable[ptr]

was_sampled_hash(ptr) == HashHit(ptr)

(***************************************************************************)
(* The selected-address sets.  A set is the array g_sampled_addrs_* held   *)
(* sparsely: a function from the occupied slots to the address each holds; *)
(* a slot outside its domain holds NULL.                                   *)
(***************************************************************************)
EmptySet == [k \in {} |-> NULL]
Slot(set, k) == IF k \in DOMAIN set THEN set[k] ELSE NULL
Store(set, k, ptr) ==
    IF ptr = NULL
    THEN [j \in (DOMAIN set) \ {k} |-> set[j]]
    ELSE [j \in (DOMAIN set) \cup {k} |-> IF j = k THEN ptr ELSE set[j]]

\* size_t idx = ((uintptr_t)ptr >> 4) % SAMPLED_SET_SIZE
HomeSlot(ptr) == (ptr \div 16) % SAMPLED_SET_SIZE
ProbeSlot(ptr, i) == (HomeSlot(ptr) + i) % SAMPLED_SET_SIZE

\* The loop of mark_sampled_poisson / mark_sampled_hash from probe i on: the
\* slot the address is stored in, or -1 when the loop ends without storing.
InsertSlotFrom(set, ptr, i) ==
    LET stops == {j \in i .. MAX_PROBE - 1 :
                     \/ Slot(set, ProbeSlot(ptr, j)) = NULL
                     \/ Slot(set, ProbeSlot(ptr, j)) = ptr}
    IN  IF stops = {} THEN -1
        ELSE ProbeSlot(ptr, CHOOSE j \in stops : \A k \in stops : j <= k)

\* A mark_sampled that stops at the first empty slot only (the test
\* "g_sampled_addrs_poisson[probe] == ptr" left out): an address that is
\* already held is stored again.
mark_sampled_NoDedup(set, ptr) ==
    LET stops == {j \in 0 .. MAX_PROBE - 1 :
                     Slot(set, ProbeSlot(ptr, j)) = NULL}
    IN  IF stops = {} THEN set
        ELSE Store(set, ProbeSlot(ptr, CHOOSE j \in stops :
                                          \A k \in stops : j <= k), ptr)

\* A mark_sampled that, when every slot of the probe chain is taken, stores
\* the address over the one in the home slot.
mark_sampled_Evicts(set, ptr) ==
    LET probe == InsertSlotFrom(set, ptr, 0)
    IN  IF probe = -1 THEN Store(set, HomeSlot(ptr), ptr)
        ELSE Store(set, probe, ptr)

\* mark_sampled_poisson / mark_sampled_hash between lock and unlock.
mark_sampled(set, ptr) ==
    LET probe == InsertSlotFrom(set, ptr, 0)
    IN  IF probe = -1 THEN set ELSE Store(set, probe, ptr)

\* The loop of was_sampled_poisson from probe i on: the slot holding the
\* address, or -1 when the loop ends (an empty slot, or 100 probes) without
\* finding it.
FindSlotFrom(set, ptr, i) ==
    LET stops == {j \in i .. MAX_PROBE - 1 :
                     \/ Slot(set, ProbeSlot(ptr, j)) = ptr
                     \/ Slot(set, ProbeSlot(ptr, j)) = NULL}
    IN  IF stops = {} THEN -1
        ELSE LET probe == ProbeSlot(ptr, CHOOSE j \in stops :
                                            \A k \in stops : j <= k)
             IN  IF Slot(set, probe) = ptr THEN probe ELSE -1

\* A was_sampled_poisson that leaves the address in the set
\* ("g_sampled_addrs_poisson[probe] = NULL" left out).
was_sampled_poisson_KeepsEntry(set, ptr) ==
    LET probe == FindSlotFrom(set, ptr, 0)
    IN  [found |-> probe # -1, set |-> set]

\* was_sampled_poisson: the Boolean it returns and the set it leaves.
was_sampled_poisson(set, ptr) ==
    LET probe == FindSlotFrom(set, ptr, 0)
    IN  IF probe = -1
        THEN [found |-> FALSE, set |-> set]
        ELSE [found |-> TRUE, set |-> Store(set, probe, NULL)]

(***************************************************************************)
(* Thread-local sampler state and the samplers.                            *)
(*                                                                         *)
(* rng_state is held as the number of xorshift64 steps applied to the      *)
(* thread's seed; the value a draw returns is chosen by the caller from    *)
(* Draws (the seed mixes the clock and the thread id).                     *)
(***************************************************************************)
InitTState ==
    [pois_bytes_until_next |-> 0, pois_bytes_inited |-> FALSE,
     hash_running_bytes |-> 0, rng_state |-> 0, rng_init |-> FALSE]

\* draw_geometric_bytes: the thread state after one draw.
draw_geometric_bytes(ts) ==
    [ts EXCEPT !.rng_init = TRUE, !.rng_state = @ + 1]

\* A sampling loop that does not count its iterations ("nsamples++" left
\* out): the weight it reports misses M bytes per draw.
RECURSIVE PoissonLoop_NoCount(_, _, _, _, _)
PoissonLoop_NoCount(ts, remaining, nsamples, ds, i) ==
    IF i > Len(ds)
    THEN [ok |-> FALSE, ts |-> ts, ret |-> 0, used |-> i - 1, loops |-> 0]
    ELSE LET r  == remaining - ds[i]
             t2 == draw_geometric_bytes(ts)
         IN  IF r >= 0
             THEN PoissonLoop_NoCount(t2, r, nsamples, ds, i + 1)
             ELSE [ok |-> TRUE,
                   ts |-> [t2 EXCEPT !.pois_bytes_until_next = r],
                   ret |-> nsamples, used |-> i, loops |-> 0]

\* A sampler that makes one draw and stops ("while (remaining_bytes >= 0)"
\* left out): the accumulator it stores may be non-negative.
PoissonLoop_OneDraw(ts, remaining, nsamples, ds, i) ==
    IF i > Len(ds)
    THEN [ok |-> FALSE, ts |-> ts, ret |-> 0, used |-> i - 1, loops |-> 0]
    ELSE [ok |-> TRUE,
          ts |-> [draw_geometric_bytes(ts) EXCEPT
                     !.pois_bytes_until_next = remaining - ds[i]],
          ret |-> nsamples + 1, used |-> i, loops |-> 0]

\* The do-while loop of sample_poisson, about to make draw number i of ds.
RECURSIVE PoissonLoop(_, _, _, _, _)
PoissonLoop(ts, remaining, nsamples, ds, i) ==
    IF i > Len(ds)
    THEN [ok |-> FALSE, ts |-> ts, ret |-> 0, used |-> i - 1, loops |-> 0]
    ELSE LET r  == remaining - ds[i]
             t2 == draw_geometric_bytes(ts)
         IN  IF r >= 0
             THEN PoissonLoop(t2, r, nsamples + 1, ds, i + 1)
             ELSE [ok |-> TRUE,
                   ts |-> [t2 EXCEPT !.pois_bytes_until_next = r],
                   ret |-> nsamples + 1, used |-> i, loops |-> 0]

\* A sampler that keeps the whole accumulator as the remainder
\* ("remaining_bytes %= g_poisson_mean" left out).
PoissonFire_NoMod(ts, remaining, mean, ds, i) ==
    LET res == PoissonLoop(ts, remaining, remaining \div mean, ds, i)
    IN  [res EXCEPT !.ret = res.ret * mean,
                    !.loops = IF res.ok THEN res.used - (i - 1) ELSE 0]

\* From "size_t nsamples = remaining_bytes / g_poisson_mean" to the return.
PoissonFire(ts, remaining, mean, ds, i) ==
    LET res == PoissonLoop(ts, remaining % mean, remaining \div mean, ds, i)
    IN  [res EXCEPT !.ret = res.ret * mean,
                    !.loops = IF res.ok THEN res.used - (i - 1) ELSE 0]

\* A sample_poisson without the test on entry ("if (pois_bytes_until_next < 0)
\* return 0" left out): it draws whatever the accumulator holds.
sample_poisson_NoEarlyReturn(ts, mean, ds) ==
    IF ~ts.pois_bytes_inited
    THEN IF Len(ds) = 0
         THEN [ok |-> FALSE, ts |-> ts, ret |-> 0, used |-> 0, loops |-> 0]
         ELSE LET r  == ts.pois_bytes_until_next - ds[1]
                  t2 == [draw_geometric_bytes(ts) EXCEPT
                            !.pois_bytes_inited = TRUE]
              IN  IF r < 0
                  THEN [ok |-> TRUE,
                        ts |-> [t2 EXCEPT !.pois_bytes_until_next = r],
                        ret |-> 0, used |-> 1, loops |-> 0]
                  ELSE PoissonFire(t2, r, mean, ds, 2)
    ELSE PoissonFire(ts, ts.pois_bytes_until_next, mean, ds, 1)

\* sample_poisson with the draws of ds: ok says ds held enough draws, used how
\* many of them the call consumed, loops how many of those the loop made, ret
\* is the reported weight.
sample_poisson(ts, mean, ds) ==
    IF ts.pois_bytes_until_next < 0
    THEN [ok |-> TRUE, ts |-> ts, ret |-> 0, used |-> 0, loops |-> 0]
    ELSE IF ~ts.pois_bytes_inited
    THEN IF Len(ds) = 0
         THEN [ok |-> FALSE, ts |-> ts, ret |-> 0, used |-> 0, loops |-> 0]
         ELSE LET r  == ts.pois_bytes_until_next - ds[1]
                  t2 == [draw_geometric_bytes(ts) EXCEPT
                            !.pois_bytes_inited = TRUE]
              IN  IF r < 0
                  THEN [ok |-> TRUE,
                        ts |-> [t2 EXCEPT !.pois_bytes_until_next = r],
                        ret |-> 0, used |-> 1, loops |-> 0]
                  ELSE PoissonFire(t2, r, mean, ds, 2)
    ELSE PoissonFire(ts, ts.pois_bytes_until_next, mean, ds, 1)

\* A hash sampler that reports the running bytes without resetting them
\* ("tstate.hash_running_bytes = 0" left out).
sample_hash_NoReset(ts, ptr) ==
    IF HashHit(ptr)
    THEN [ts |-> ts, ret |-> ts.hash_running_bytes]
    ELSE [ts |-> ts, ret |-> 0]

\* sample_hash: the reported weight and the thread state it leaves.
sample_hash(ts, ptr) ==
    IF HashHit(ptr)
    THEN [ts |-> [ts EXCEPT !.hash_running_bytes = 0],
          ret |-> ts.hash_running_bytes]
    ELSE [ts |-> ts, ret |-> 0]

\* sample: the dispatch on g_scheme.
sample(scheme, ts, ptr, size, mean, ds) ==
    CASE scheme = "SCHEME_NONE" ->
            [ok |-> TRUE, ts |-> ts, ret |-> size, used |-> 0, loops |-> 0]
      [] scheme = "SCHEME_STATELESS_HASH" ->
            [ok |-> TRUE, ts |-> sample_hash(ts, ptr).ts,
             ret |-> sample_hash(ts, ptr).ret, used |-> 0, loops |-> 0]
      [] scheme = "SCHEME_POISSON" -> sample_poisson(ts, mean, ds)
      [] OTHER ->
            [ok |-> TRUE, ts |-> ts, ret |-> 0, used |-> 0, loops |-> 0]

\* The sequences of at most MaxDraws draws.
DrawSeqs == UNION {[1 .. n -> Draws] : n \in 0 .. MaxDraws}

(***************************************************************************)
(* The timing counters of sampler_timed.c.  A uint64_t is held as its four *)
(* 16-bit limbs, the most significant first.                               *)
(***************************************************************************)
LIMB == 65536
U64(n) == <<0, 0, 0, n>>
UINT64_MAX == <<LIMB - 1, LIMB - 1, LIMB - 1, LIMB - 1>>

\* a < b as unsigned 64-bit values.
U64Less(a, b) ==
    \E i \in 1 .. 4 : a[i] < b[i] /\ \A j \in 1 .. i - 1 : a[j] = b[j]

\* a + b modulo 2^64.
U64Add(a, b) ==
    LET c4 == (a[4] + b[4]) \div LIMB
        c3 == (a[3] + b[3] + c4) \div LIMB
        c2 == (a[2] + b[2] + c3) \div LIMB
    IN  <<(a[1] + b[1] + c2) % LIMB, (a[2] + b[2] + c3) % LIMB,
          (a[3] + b[3] + c4) % LIMB, (a[4] + b[4]) % LIMB>>

\* g_timing_poisson, g_timing_hash, g_timing_poisson_free, g_timing_hash_free
StatNames == {"poisson", "hash", "poisson_free", "hash_free"}

\* static TimingStats g_timing_* = {0, 0, UINT64_MAX, 0, 0}
NoTiming ==
    [total_calls |-> U64(0), total_cycles |-> U64(0),
     min_cycles |-> UINT64_MAX, max_cycles |-> U64(0),
     samples_taken |-> U64(0)]

(***************************************************************************)
(* State.                                                                  *)
(***************************************************************************)
VARIABLES
    env,                      \* the environment: SAMPLER_SCHEME,
                              \* SAMPLER_POISSON_MEAN_BYTES, what dlsym finds
    g_initialized,            \* atomic_bool
    g_init_lock,              \* the thread holding it, or NoThread
    real_malloc, real_free,   \* TRUE when the handle is resolved (non-NULL)
    g_scheme, g_combined_mode, g_poisson_mean,
    g_sampled_addrs_poisson, g_sampled_addrs_hash,
    g_sampled_lock_poisson, g_sampled_lock_hash,
    t_in_wrapper,             \* per thread
    tstate,                   \* per thread
    stack,                    \* per thread: its wrapper activations, the
                              \* innermost last
    alloc,                    \* per address: the host allocator's and the
                              \* program's view of it
    out,                      \* the records written to stdout, in order
    fault,                    \* "none", or how the process died
    budget, nest,             \* calls each thread may still make
    lastRet,                  \* per thread: the call that returned last
    hist,                     \* per thread: sums over its calls so far
    hashDecisions,            \* per address: the decisions (selected or not)
                              \* the hash sampler made for allocations at it
    g_timing_enabled,         \* sampler_timed.c only: SAMPLER_TIMING was "1"
    g_timing,                 \* sampler_timed.c only: the four TimingStats
    recorded                  \* per TimingStats: the cycle values passed to
                              \* record_timing so far, and how many calls

cfgvars == <<env, g_initialized, g_init_lock, real_malloc, real_free,
             g_scheme, g_combined_mode, g_poisson_mean>>
setvars == <<g_sampled_addrs_poisson, g_sampled_addrs_hash,
             g_sampled_lock_poisson, g_sampled_lock_hash>>
timevars == <<g_timing_enabled, g_timing, recorded>>
vars == <<cfgvars, setvars, t_in_wrapper, tstate, stack, alloc, out, fault,
          budget, nest, lastRet, hist, hashDecisions, timevars>>

NoRet ==
    [op |-> "none", nested |-> FALSE, size |-> 0, ptr |-> NULL,
     g0 |-> FALSE, hostcalls |-> <<>>, hostret |-> NULL,
     ret |-> NULL, emitted |-> 0, wasEmitted |-> FALSE,
     wasMarked |-> FALSE, wasInserted |-> FALSE, wasLive |-> FALSE, n |-> 0]

NoHist == [sizes |-> 0, weights |-> 0, hashw |-> 0, loops |-> 0, draws |-> 0]

\* marked: mark_sampled_poisson ran for the allocation; inserted: it stored
\* the address.
FreeAlloc ==
    [st |-> "free", emitted |-> FALSE, marked |-> FALSE, inserted |-> FALSE]

\* The addresses the host allocator hands out in this run.
Heap == DOMAIN alloc

\* The state of the process before its first interposed call, with the given
\* environments and call budgets; heap is the set of addresses the host
\* allocator hands out in the run.
InitWith(envs, calls, heap) ==
    /\ env \in envs
    /\ g_initialized = FALSE
    /\ g_init_lock = NoThread
    /\ real_malloc = FALSE
    /\ real_free = FALSE
    /\ g_scheme = "SCHEME_NONE"
    /\ g_combined_mode = FALSE
    /\ g_poisson_mean = DEFAULT_POISSON_MEAN
    /\ g_sampled_addrs_poisson = EmptySet
    /\ g_sampled_addrs_hash = EmptySet
    /\ g_sampled_lock_poisson = NoThread
    /\ g_sampled_lock_hash = NoThread
    /\ t_in_wrapper = [t \in Threads |-> FALSE]
    /\ tstate = [t \in Threads |-> InitTState]
    /\ stack = [t \in Threads |-> <<>>]
    /\ alloc = [a \in heap |-> FreeAlloc]
    /\ out = <<>>
    /\ fault = "none"
    /\ budget = calls
    /\ nest = [t \in Threads |-> MaxNested]
    /\ lastRet = [t \in Threads |-> NoRet]
    /\ hist = [t \in Threads |-> NoHist]
    /\ hashDecisions = [a \in heap |-> {}]
    /\ g_timing_enabled = FALSE
    /\ g_timing = [s \in StatNames |-> NoTiming]
    /\ recorded = [s \in StatNames |-> [vals |-> {}, calls |-> 0]]

Envs(schemes, means, dl) ==
    [scheme : schemes, mean : means, dlsym_malloc : dl, dlsym_free : dl,
     timing : {""}]

\* Environments in which dlsym fails to find malloc or free.
FailEnvs ==
    {e \in Envs({""}, {""}, BOOLEAN) : ~(e.dlsym_malloc /\ e.dlsym_free)}

\* Two threads; each of the four implemented schemes, or a failing dlsym.
Init ==
    InitWith(Envs({"NONE", "STATELESS_HASH", "POISSON", "COMBINED"}, {"2"},
                  {TRUE}) \cup FailEnvs,
             [t \in Threads |-> IF t = "t1" THEN MaxCalls ELSE MaxCalls2],
             Addrs)

\* One thread in single-scheme Poisson mode, with a longer run of calls.
InitSeq ==
    InitWith(Envs({"POISSON"}, {"2"}, {TRUE}),
             [t \in Threads |-> IF t = "t1" THEN MaxSeqCalls ELSE 0],
             Addrs)

\* One thread, every value of SAMPLER_SCHEME and SAMPLER_POISSON_MEAN_BYTES.
InitEnv ==
    InitWith(Envs(EnvSchemes, EnvMeans, {TRUE}),
             [t \in Threads |-> IF t = "t1" THEN MaxEnvCalls ELSE 0],
             Addrs)

\* One thread in Poisson or combined mode and a heap of 101 addresses with
\* the same home slot; the program may make MAX_PROBE calls and MaxSatCalls
\* more.
InitSat ==
    InitWith(Envs({"POISSON", "COMBINED"}, {"2"}, {TRUE}),
             [t \in Threads |-> IF t = "t1" THEN MAX_PROBE + MaxSatCalls
                                ELSE 0],
             SatAddrs)

\* One thread in Poisson or combined mode with mean 1 or 2.
InitLoop ==
    InitWith(Envs({"POISSON", "COMBINED"}, {"1", "2"}, {TRUE}),
             [t \in Threads |-> IF t = "t1" THEN MaxLoopCalls ELSE 0],
             Addrs)

\* The timed build, two threads: three schemes, SAMPLER_TIMING unset, "0" or
\* "1".
InitTimed ==
    InitWith([scheme : {"STATELESS_HASH", "POISSON", "COMBINED"},
              mean : {"2"}, dlsym_malloc : {TRUE}, dlsym_free : {TRUE},
              timing : {"", "0", "1"}],
             [t \in Threads |-> MaxTimedCalls], Addrs)

(***************************************************************************)
(* Activations.                                                            *)
(***************************************************************************)
Top(t) == stack[t][Len(stack[t])]
Push(t, f) == [stack EXCEPT ![t] = Append(@, f)]
Pop(t) == [stack EXCEPT ![t] = SubSeq(@, 1, Len(@) - 1)]
SetTop(t, f) == [stack EXCEPT ![t][Len(stack[t])] = f]
At(t, op, pc) ==
    /\ fault = "none"
    /\ stack[t] # <<>>
    /\ Top(t).op = op
    /\ Top(t).pc = pc
AtPc(t, pc) ==
    /\ fault = "none"
    /\ stack[t] # <<>>
    /\ Top(t).pc = pc

\* Where library code that the wrapper runs may call malloc/free again:
\* dlsym, getenv/fprintf (init_sampler) and printf.
NestPcs == {"init_resolve", "init_config", "emit"}

CanCall(t) ==
    /\ fault = "none"
    /\ IF stack[t] = <<>> THEN budget[t] > 0
       ELSE Top(t).pc \in NestPcs /\ nest[t] > 0

Spend(t) ==
    IF stack[t] = <<>>
    THEN budget' = [budget EXCEPT ![t] = @ - 1] /\ UNCHANGED nest
    ELSE nest' = [nest EXCEPT ![t] = @ - 1] /\ UNCHANGED budget

NewFrame(t, op, size, ptr) ==
    [op |-> op, pc |-> "init_enter", size |-> size, ptr |-> ptr,
     g0 |-> t_in_wrapper[t], nested |-> stack[t] # <<>>,
     hostcalls |-> <<>>, hostret |-> NULL,
     pois_size |-> 0, hash_size |-> 0, reported_size |-> 0,
     pois_tracked |-> FALSE, hash_tracked |-> FALSE, should_log |-> FALSE,
     remaining_bytes |-> 0, nsamples |-> 0, loops |-> 0, drawn |-> 0,
     stats |-> "", cycles |-> U64(0), sampled |-> FALSE,
     current |-> U64(0), resume |-> "",
     emitted |-> 0]

\* The record of the n-th call to return on a thread, returning ret.
RetOf(f, ret, n) ==
    [op |-> f.op, nested |-> f.nested, size |-> f.size, ptr |-> f.ptr,
     g0 |-> f.g0, hostcalls |-> f.hostcalls,
     hostret |-> f.hostret, ret |-> ret, emitted |-> f.emitted,
     wasEmitted |-> FALSE, wasMarked |-> FALSE, wasInserted |-> FALSE,
     wasLive |-> FALSE, n |-> n]

(***************************************************************************)
(* malloc and free up to the first shared access.                          *)
(***************************************************************************)
\* malloc calls sample_poisson: combined mode or single-scheme Poisson mode.
PoissonCalled == g_combined_mode \/ g_scheme = "SCHEME_POISSON"

\* The release-side decision that needs no lock (free, single scheme, not
\* Poisson).
FreeShouldLog(ptr) ==
    IF g_scheme = "SCHEME_NONE" THEN TRUE
    ELSE IF g_scheme = "SCHEME_STATELESS_HASH" THEN was_sampled_hash(ptr)
    ELSE FALSE

\* The activation once initialisation is known to be done: "t_in_wrapper =
\* true" and on to the next shared access.
Proceed(f) ==
    IF f.op = "malloc" THEN [f EXCEPT !.pc = "host_malloc"]
    ELSE IF g_combined_mode \/ g_scheme = "SCHEME_POISSON"
    THEN [f EXCEPT !.pc = "was_lock"]
    ELSE [f EXCEPT !.should_log = FreeShouldLog(f.ptr),
                   !.pc = IF FreeShouldLog(f.ptr) THEN "emit"
                          ELSE "host_free"]

\* A malloc that adds size to the accumulators before it checks the guard.
MallocEntry_CountsNested(t, size) ==
    LET f == NewFrame(t, "malloc", size, NULL)
    IN  IF t_in_wrapper[t]
        THEN /\ lastRet' = [lastRet EXCEPT ![t] =
                                RetOf(f, NULL, lastRet[t].n + 1)]
             /\ tstate' = [tstate EXCEPT
                              ![t].pois_bytes_until_next = @ + size,
                              ![t].hash_running_bytes = @ + size]
             /\ UNCHANGED <<stack, t_in_wrapper>>
        ELSE IF g_initialized
        THEN /\ t_in_wrapper' = [t_in_wrapper EXCEPT ![t] = TRUE]
             /\ stack' = Push(t, Proceed(f))
             /\ UNCHANGED <<lastRet, tstate>>
        ELSE /\ stack' = Push(t, f)
             /\ UNCHANGED <<lastRet, t_in_wrapper, tstate>>

\* void *malloc(size_t size): the guard check and the load of g_initialized.
MallocEntry(t, size) ==
    LET f == NewFrame(t, "malloc", size, NULL)
    IN  IF t_in_wrapper[t]
        THEN /\ lastRet' = [lastRet EXCEPT ![t] =
                                RetOf(f, NULL, lastRet[t].n + 1)]
             /\ UNCHANGED <<stack, t_in_wrapper, tstate>>
        ELSE IF g_initialized
        THEN /\ t_in_wrapper' = [t_in_wrapper EXCEPT ![t] = TRUE]
             /\ stack' = Push(t, Proceed(f))
             /\ UNCHANGED <<lastRet, tstate>>
        ELSE /\ stack' = Push(t, f)
             /\ UNCHANGED <<lastRet, t_in_wrapper, tstate>>

Malloc(t, size) ==
    /\ CanCall(t)
    /\ Spend(t)
    /\ MallocEntry(t, size)
    /\ UNCHANGED <<cfgvars, timevars, setvars, alloc, out, fault, hist, hashDecisions>>

\* The addresses a call of free may be given: the program frees what malloc
\* returned to it and it has not freed yet; library code frees its own.
FreeArgs(t) ==
    {NULL} \cup (IF stack[t] = <<>>
                 THEN {a \in Heap : alloc[a].st = "owned"}
                 ELSE LibAddrs)

\* A free without "if (!ptr) return": the null address goes on like any
\* other.
FreeEntry_NoNullCheck(t, ptr) ==
    LET f == NewFrame(t, "free", 0, ptr)
    IN  IF t_in_wrapper[t]
        THEN /\ lastRet' = [lastRet EXCEPT ![t] =
                                RetOf(f, NULL, lastRet[t].n + 1)]
             /\ UNCHANGED <<stack, t_in_wrapper, tstate>>
        ELSE IF g_initialized
        THEN /\ t_in_wrapper' = [t_in_wrapper EXCEPT ![t] = TRUE]
             /\ stack' = Push(t, Proceed(f))
             /\ UNCHANGED <<lastRet, tstate>>
        ELSE /\ stack' = Push(t, f)
             /\ UNCHANGED <<lastRet, t_in_wrapper, tstate>>

\* void free(void *ptr): the null check, the guard check and the load of
\* g_initialized.
FreeEntry(t, ptr) ==
    LET f == NewFrame(t, "free", 0, ptr)
    IN  IF ptr = NULL \/ t_in_wrapper[t]
        THEN /\ lastRet' = [lastRet EXCEPT ![t] =
                                RetOf(f, NULL, lastRet[t].n + 1)]
             /\ UNCHANGED <<stack, t_in_wrapper, tstate>>
        ELSE IF g_initialized
        THEN /\ t_in_wrapper' = [t_in_wrapper EXCEPT ![t] = TRUE]
             /\ stack' = Push(t, Proceed(f))
             /\ UNCHANGED <<lastRet, tstate>>
        ELSE /\ stack' = Push(t, f)
             /\ UNCHANGED <<lastRet, t_in_wrapper, tstate>>

Free(t, ptr) ==
    /\ CanCall(t)
    /\ ptr \in FreeArgs(t)
    /\ Spend(t)
    /\ FreeEntry(t, ptr)
    /\ alloc' = IF ptr \in Heap
                THEN [alloc EXCEPT ![ptr].st =
                         IF t_in_wrapper[t] THEN "leaked" ELSE "freeing"]
                ELSE alloc
    /\ UNCHANGED <<cfgvars, timevars, setvars, out, fault, hist, hashDecisions>>

(***************************************************************************)
(* init_sampler.                                                           *)
(***************************************************************************)
\* if (atomic_load(&g_initialized)) return;
InitEnter(t) ==
    /\ AtPc(t, "init_enter")
    /\ IF g_initialized
       THEN /\ t_in_wrapper' = [t_in_wrapper EXCEPT ![t] = TRUE]
            /\ stack' = SetTop(t, Proceed(Top(t)))
       ELSE /\ stack' = SetTop(t, [Top(t) EXCEPT !.pc = "init_lock"])
            /\ UNCHANGED t_in_wrapper
    /\ UNCHANGED <<cfgvars, timevars, setvars, tstate, alloc, out, fault, budget, nest,
                   lastRet, hist, hashDecisions>>

\* pthread_mutex_lock(&g_init_lock): a default (non-recursive) mutex, so a
\* thread that already holds it waits for itself.
InitLock(t) ==
    /\ AtPc(t, "init_lock")
    /\ g_init_lock = NoThread
    /\ g_init_lock' = t
    /\ stack' = SetTop(t, [Top(t) EXCEPT !.pc = "init_check"])
    /\ UNCHANGED <<env, timevars, g_initialized, real_malloc, real_free, g_scheme,
                   g_combined_mode, g_poisson_mean, setvars, t_in_wrapper,
                   tstate, alloc, out, fault, budget, nest, lastRet, hist, hashDecisions>>

\* An init_sampler that does not test g_initialized again under the lock.
InitCheck_NoRecheck(t) ==
    /\ AtPc(t, "init_check")
    /\ stack' = SetTop(t, [Top(t) EXCEPT !.pc = "init_resolve"])
    /\ UNCHANGED <<cfgvars, timevars, setvars, t_in_wrapper, tstate, alloc, out, fault,
                   budget, nest, lastRet, hist, hashDecisions>>

\* if (!atomic_load(&g_initialized)) { ... }
InitCheck(t) ==
    /\ AtPc(t, "init_check")
    /\ stack' = SetTop(t, [Top(t) EXCEPT !.pc =
                     IF g_initialized THEN "init_unlock" ELSE "init_resolve"])
    /\ UNCHANGED <<cfgvars, timevars, setvars, t_in_wrapper, tstate, alloc, out, fault,
                   budget, nest, lastRet, hist, hashDecisions>>

\* An init_sampler that goes on when dlsym returns NULL.
InitResolve_NoAbort(t) ==
    /\ AtPc(t, "init_resolve")
    /\ real_malloc' = env.dlsym_malloc
    /\ real_free' = env.dlsym_free
    /\ stack' = SetTop(t, [Top(t) EXCEPT !.pc = "init_config"])
    /\ UNCHANGED <<env, timevars, g_initialized, g_init_lock, g_scheme, g_combined_mode,
                   g_poisson_mean, setvars, t_in_wrapper, tstate, alloc, out,
                   fault, budget, nest, lastRet, hist, hashDecisions>>

\* The two dlsym calls and the abort when either handle is NULL.
InitResolve(t) ==
    /\ AtPc(t, "init_resolve")
    /\ real_malloc' = env.dlsym_malloc
    /\ real_free' = env.dlsym_free
    /\ IF env.dlsym_malloc /\ env.dlsym_free
       THEN /\ stack' = SetTop(t, [Top(t) EXCEPT !.pc = "init_config"])
            /\ UNCHANGED fault
       ELSE /\ fault' = "abort"
            /\ UNCHANGED stack
    /\ UNCHANGED <<env, timevars, g_initialized, g_init_lock, g_scheme, g_combined_mode,
                   g_poisson_mean, setvars, t_in_wrapper, tstate, alloc, out,
                   budget, nest, lastRet, hist, hashDecisions>>

\* The g_scheme a value of SAMPLER_SCHEME selects (COMBINED runs as NONE).
SchemeOf(name) ==
    CASE name = "STATELESS_HASH" -> "SCHEME_STATELESS_HASH"
      [] name = "POISSON" -> "SCHEME_POISSON"
      [] name = "HYBRID" -> "SCHEME_HYBRID_SMALL_POISSON_LARGE_HASH"
      [] name = "PAGE_HASH" -> "SCHEME_PAGE_HASH"
      [] OTHER -> "SCHEME_NONE"

\* atol on the values of EnvMeans.
Atol(str) ==
    CASE str = "1" -> 1
      [] str = "2" -> 2
      [] str = "-3" -> -3
      [] OTHER -> 0

\* An init_sampler that stores whatever atol returns ("if (val > 0)" left
\* out).
InitConfig_NoPositiveCheck(t) ==
    /\ AtPc(t, "init_config")
    /\ g_combined_mode' = IF env.scheme = "COMBINED" THEN TRUE
                          ELSE g_combined_mode
    /\ g_scheme' = IF env.scheme = "" THEN g_scheme ELSE SchemeOf(env.scheme)
    /\ g_poisson_mean' = IF env.mean # "" THEN Atol(env.mean)
                         ELSE g_poisson_mean
    /\ stack' = SetTop(t, [Top(t) EXCEPT !.pc = "init_publish"])
    /\ UNCHANGED <<env, timevars, g_initialized, g_init_lock, real_malloc, real_free,
                   setvars, t_in_wrapper, tstate, alloc, out, fault, budget,
                   nest, lastRet, hist, hashDecisions>>

\* The environment is parsed into g_combined_mode, g_scheme, g_poisson_mean.
InitConfig(t) ==
    /\ AtPc(t, "init_config")
    /\ g_combined_mode' = IF env.scheme = "COMBINED" THEN TRUE
                          ELSE g_combined_mode
    /\ g_scheme' = IF env.scheme = "" THEN g_scheme ELSE SchemeOf(env.scheme)
    /\ g_poisson_mean' = IF env.mean # "" /\ Atol(env.mean) > 0
                         THEN Atol(env.mean) ELSE g_poisson_mean
    /\ stack' = SetTop(t, [Top(t) EXCEPT !.pc = "init_publish"])
    /\ UNCHANGED <<env, timevars, g_initialized, g_init_lock, real_malloc, real_free,
                   setvars, t_in_wrapper, tstate, alloc, out, fault, budget,
                   nest, lastRet, hist, hashDecisions>>

\* atomic_store(&g_initialized, true)
InitPublish(t) ==
    /\ AtPc(t, "init_publish")
    /\ g_initialized' = TRUE
    /\ stack' = SetTop(t, [Top(t) EXCEPT !.pc = "init_unlock"])
    /\ UNCHANGED <<env, timevars, g_init_lock, real_malloc, real_free, g_scheme,
                   g_combined_mode, g_poisson_mean, setvars, t_in_wrapper,
                   tstate, alloc, out, fault, budget, nest, lastRet, hist, hashDecisions>>

\* pthread_mutex_unlock(&g_init_lock), the return to malloc/free, and
\* "t_in_wrapper = true".
InitUnlock(t) ==
    /\ AtPc(t, "init_unlock")
    /\ g_init_lock' = NoThread
    /\ t_in_wrapper' = [t_in_wrapper EXCEPT ![t] = TRUE]
    /\ stack' = SetTop(t, Proceed(Top(t)))
    /\ UNCHANGED <<env, timevars, g_initialized, real_malloc, real_free, g_scheme,
                   g_combined_mode, g_poisson_mean, setvars, tstate, alloc,
                   out, fault, budget, nest, lastRet, hist, hashDecisions>>

(***************************************************************************)
(* malloc from the host call on.                                           *)
(***************************************************************************)
RECURSIVE SumSeq(_)
SumSeq(q) == IF q = <<>> THEN 0 ELSE Head(q) + SumSeq(Tail(q))

\* Accumulators of which only the Poisson one is advanced
\* ("hash_running_bytes += size" left out).
AddSize_PoissonOnly(ts, size) ==
    [ts EXCEPT !.pois_bytes_until_next = @ + size]

\* "pois_bytes_until_next += size; hash_running_bytes += size"
AddSize(ts, size) ==
    [ts EXCEPT !.pois_bytes_until_next = @ + size,
               !.hash_running_bytes = @ + size]

\* A combined branch that evaluates the hash sampler only when the Poisson
\* sampler did not select the allocation.
CombinedSample_HashUnlessPoisson(ts, ptr, size, mean, ds) ==
    LET rp == sample_poisson(AddSize(ts, size), mean, ds)
        rh == IF rp.ret > 0 THEN [ts |-> rp.ts, ret |-> 0]
              ELSE sample_hash(rp.ts, ptr)
    IN  [ok |-> rp.ok, used |-> rp.used, loops |-> rp.loops, ts |-> rh.ts,
         pois_size |-> rp.ret, hash_size |-> rh.ret]

\* The combined-mode branch of malloc up to the first lock: both samplers.
CombinedSample(ts, ptr, size, mean, ds) ==
    LET rp == sample_poisson(AddSize(ts, size), mean, ds)
        rh == sample_hash(rp.ts, ptr)
    IN  [ok |-> rp.ok, used |-> rp.used, loops |-> rp.loops, ts |-> rh.ts,
         pois_size |-> rp.ret, hash_size |-> rh.ret]

\* The single-scheme branch of malloc up to the first lock.
LegacySample(scheme, ts, ptr, size, mean, ds) ==
    sample(scheme, AddSize(ts, size), ptr, size, mean, ds)

\* Where malloc goes after the samplers in combined mode.
CombinedNextPc(pois_size, hash_size) ==
    IF pois_size > 0 THEN "mark_lock_poisson"
    ELSE IF hash_size > 0 THEN "mark_lock_hash"
    ELSE "emit"

\* Where malloc goes after sample() in single-scheme mode: "ret" when
\* reported_size is 0 and nothing is marked or printed.
LegacyNextPc(scheme, reported_size) ==
    IF reported_size = 0 THEN "ret"
    ELSE IF scheme = "SCHEME_POISSON" THEN "mark_lock_poisson"
    ELSE IF scheme = "SCHEME_STATELESS_HASH" THEN "mark_lock_hash"
    ELSE "emit"

\* The thread's sums after a successful allocation.
HistAfter(h, size, weight, hash_weight, loops, ds) ==
    [sizes |-> h.sizes + size, weights |-> h.weights + weight,
     hashw |-> h.hashw + hash_weight,
     loops |-> h.loops + loops, draws |-> h.draws + SumSeq(ds)]

\* A return from malloc that forgets "t_in_wrapper = false" on the
\* host-failure path.
MallocReturn_KeepsGuardOnNull(t, f, ret) ==
    /\ t_in_wrapper' = IF ret = NULL THEN t_in_wrapper
                       ELSE [t_in_wrapper EXCEPT ![t] = FALSE]
    /\ stack' = Pop(t)
    /\ lastRet' = [lastRet EXCEPT ![t] = RetOf(f, ret, lastRet[t].n + 1)]

\* malloc returns ret to its caller: "t_in_wrapper = false; return".
MallocReturn(t, f, ret) ==
    /\ t_in_wrapper' = [t_in_wrapper EXCEPT ![t] = FALSE]
    /\ stack' = Pop(t)
    /\ lastRet' = [lastRet EXCEPT ![t] = RetOf(f, ret, lastRet[t].n + 1)]

\* The st of an address that malloc hands to its caller.
Handed(f) == IF f.nested THEN "lib" ELSE "owned"

\* A malloc that adds size to both accumulators before it tests the address
\* real_malloc returned.
HostMalloc_CountsFailed(t, p, ds) ==
    /\ At(t, "malloc", "host_malloc")
    /\ LET f0 == Top(t)
           f  == [f0 EXCEPT !.hostcalls = Append(@, f0.size), !.hostret = p,
                            !.ptr = p]
       IN  IF ~real_malloc
           THEN /\ fault' = "null_call"
                /\ UNCHANGED <<t_in_wrapper, tstate, stack, alloc, lastRet,
                               hist, hashDecisions>>
           ELSE IF p = NULL
           THEN /\ ds = <<>>
                /\ MallocReturn(t, f, NULL)
                /\ tstate' = [tstate EXCEPT ![t] = AddSize(@, f.size)]
                /\ UNCHANGED <<alloc, hist, fault, hashDecisions>>
           ELSE IF g_combined_mode
           THEN LET r == CombinedSample(tstate[t], p, f.size, g_poisson_mean, ds)
                IN  /\ r.ok /\ r.used = Len(ds)
                    /\ tstate' = [tstate EXCEPT ![t] = r.ts]
                    /\ hist' = [hist EXCEPT ![t] =
                            HistAfter(@, f.size, r.pois_size, r.hash_size,
                                      r.loops, ds)]
                    /\ stack' = SetTop(t,
                            [f EXCEPT !.pois_size = r.pois_size,
                                      !.hash_size = r.hash_size,
                                      !.pois_tracked = r.pois_size > 0,
                                      !.hash_tracked = r.hash_size > 0,
                                      !.pc = CombinedNextPc(r.pois_size,
                                                            r.hash_size)])
                    /\ alloc' = [alloc EXCEPT ![p] =
                            [FreeAlloc EXCEPT !.st = "host"]]
                    /\ hashDecisions' = [hashDecisions EXCEPT ![p] =
                            @ \cup {r.hash_size > 0}]
                    /\ UNCHANGED <<t_in_wrapper, lastRet, fault>>
           ELSE LET r == LegacySample(g_scheme, tstate[t], p, f.size,
                                      g_poisson_mean, ds)
                    pc == LegacyNextPc(g_scheme, r.ret)
                IN  /\ r.ok /\ r.used = Len(ds)
                    /\ tstate' = [tstate EXCEPT ![t] = r.ts]
                    /\ hist' = [hist EXCEPT ![t] =
                            HistAfter(@, f.size,
                                      IF g_scheme = "SCHEME_POISSON"
                                      THEN r.ret ELSE 0,
                                      IF g_scheme = "SCHEME_STATELESS_HASH"
                                      THEN r.ret ELSE 0, r.loops, ds)]
                    /\ fault' = fault
                    /\ hashDecisions' =
                            IF g_scheme = "SCHEME_STATELESS_HASH"
                            THEN [hashDecisions EXCEPT ![p] = @ \cup {r.ret > 0}]
                            ELSE hashDecisions
                    /\ IF pc = "ret"
                       THEN /\ MallocReturn(t, f, p)
                            /\ alloc' = [alloc EXCEPT ![p] =
                                    [FreeAlloc EXCEPT !.st = Handed(f)]]
                       ELSE /\ stack' = SetTop(t,
                                    [f EXCEPT !.reported_size = r.ret,
                                              !.pc = pc])
                            /\ alloc' = [alloc EXCEPT ![p] =
                                    [FreeAlloc EXCEPT !.st = "host"]]
                            /\ UNCHANGED <<t_in_wrapper, lastRet>>
    /\ UNCHANGED <<cfgvars, timevars, setvars, out, budget, nest>>

\* "void *ptr = real_malloc(size)" returns p; then the accumulators and the
\* samplers (thread-local), up to the first lock, the printf or the return.
HostMalloc(t, p, ds) ==
    /\ At(t, "malloc", "host_malloc")
    /\ LET f0 == Top(t)
           f  == [f0 EXCEPT !.hostcalls = Append(@, f0.size), !.hostret = p,
                            !.ptr = p]
       IN  IF ~real_malloc
           THEN /\ fault' = "null_call"
                /\ UNCHANGED <<t_in_wrapper, tstate, stack, alloc, lastRet,
                               hist, hashDecisions>>
           ELSE IF p = NULL
           THEN /\ ds = <<>>
                /\ MallocReturn(t, f, NULL)
                /\ UNCHANGED <<tstate, alloc, hist, fault, hashDecisions>>
           ELSE IF g_combined_mode
           THEN LET r == CombinedSample(tstate[t], p, f.size, g_poisson_mean, ds)
                IN  /\ r.ok /\ r.used = Len(ds)
                    /\ tstate' = [tstate EXCEPT ![t] = r.ts]
                    /\ hist' = [hist EXCEPT ![t] =
                            HistAfter(@, f.size, r.pois_size, r.hash_size,
                                      r.loops, ds)]
                    /\ stack' = SetTop(t,
                            [f EXCEPT !.pois_size = r.pois_size,
                                      !.hash_size = r.hash_size,
                                      !.pois_tracked = r.pois_size > 0,
                                      !.hash_tracked = r.hash_size > 0,
                                      !.pc = CombinedNextPc(r.pois_size,
                                                            r.hash_size)])
                    /\ alloc' = [alloc EXCEPT ![p] =
                            [FreeAlloc EXCEPT !.st = "host"]]
                    /\ hashDecisions' = [hashDecisions EXCEPT ![p] =
                            @ \cup {r.hash_size > 0}]
                    /\ UNCHANGED <<t_in_wrapper, lastRet, fault>>
           ELSE LET r == LegacySample(g_scheme, tstate[t], p, f.size,
                                      g_poisson_mean, ds)
                    pc == LegacyNextPc(g_scheme, r.ret)
                IN  /\ r.ok /\ r.used = Len(ds)
                    /\ tstate' = [tstate EXCEPT ![t] = r.ts]
                    /\ hist' = [hist EXCEPT ![t] =
                            HistAfter(@, f.size,
                                      IF g_scheme = "SCHEME_POISSON"
                                      THEN r.ret ELSE 0,
                                      IF g_scheme = "SCHEME_STATELESS_HASH"
                                      THEN r.ret ELSE 0, r.loops, ds)]
                    /\ fault' = fault
                    /\ hashDecisions' =
                            IF g_scheme = "SCHEME_STATELESS_HASH"
                            THEN [hashDecisions EXCEPT ![p] = @ \cup {r.ret > 0}]
                            ELSE hashDecisions
                    /\ IF pc = "ret"
                       THEN /\ MallocReturn(t, f, p)
                            /\ alloc' = [alloc EXCEPT ![p] =
                                    [FreeAlloc EXCEPT !.st = Handed(f)]]
                       ELSE /\ stack' = SetTop(t,
                                    [f EXCEPT !.reported_size = r.ret,
                                              !.pc = pc])
                            /\ alloc' = [alloc EXCEPT ![p] =
                                    [FreeAlloc EXCEPT !.st = "host"]]
                            /\ UNCHANGED <<t_in_wrapper, lastRet>>
    /\ UNCHANGED <<cfgvars, timevars, setvars, out, budget, nest>>

\* The addresses real_malloc may return: NULL, or one not in use.
HostFreeAddrs == {NULL} \cup {a \in Heap : alloc[a].st = "free"}

\* pthread_mutex_lock of the set's lock in mark_sampled_poisson/_hash.
MarkLock(t) ==
    /\ stack[t] # <<>>
    /\ fault = "none"
    /\ Top(t).pc \in {"mark_lock_poisson", "mark_lock_hash"}
    /\ IF Top(t).pc = "mark_lock_poisson"
       THEN /\ g_sampled_lock_poisson = NoThread
            /\ g_sampled_lock_poisson' = t
            /\ stack' = SetTop(t, [Top(t) EXCEPT !.pc = "mark_poisson"])
            /\ UNCHANGED g_sampled_lock_hash
       ELSE /\ g_sampled_lock_hash = NoThread
            /\ g_sampled_lock_hash' = t
            /\ stack' = SetTop(t, [Top(t) EXCEPT !.pc = "mark_hash"])
            /\ UNCHANGED g_sampled_lock_poisson
    /\ UNCHANGED <<cfgvars, timevars, g_sampled_addrs_poisson, g_sampled_addrs_hash,
                   t_in_wrapper, tstate, alloc, out, fault, budget, nest,
                   lastRet, hist, hashDecisions>>

\* A mark_sampled_poisson/_hash that returns without pthread_mutex_unlock.
MarkProbe_KeepsLock(t) ==
    /\ stack[t] # <<>>
    /\ fault = "none"
    /\ Top(t).pc \in {"mark_poisson", "mark_hash"}
    /\ LET f == Top(t)
       IN  IF f.pc = "mark_poisson"
           THEN /\ g_sampled_addrs_poisson' =
                        mark_sampled(g_sampled_addrs_poisson, f.ptr)
                /\ alloc' = [alloc EXCEPT ![f.ptr].marked = TRUE,
                                          ![f.ptr].inserted =
                        InsertSlotFrom(g_sampled_addrs_poisson, f.ptr, 0) # -1]
                /\ stack' = SetTop(t, [f EXCEPT !.pc =
                        IF g_combined_mode /\ f.hash_tracked
                        THEN "mark_lock_hash" ELSE "emit"])
                /\ UNCHANGED <<g_sampled_addrs_hash, g_sampled_lock_hash,
                               g_sampled_lock_poisson>>
           ELSE /\ g_sampled_addrs_hash' =
                        mark_sampled(g_sampled_addrs_hash, f.ptr)
                /\ stack' = SetTop(t, [f EXCEPT !.pc = "emit"])
                /\ UNCHANGED <<g_sampled_addrs_poisson, g_sampled_lock_poisson,
                               g_sampled_lock_hash, alloc>>
    /\ UNCHANGED <<cfgvars, timevars, t_in_wrapper, tstate, out, fault, budget, nest,
                   lastRet, hist, hashDecisions>>

\* The probe loop and the unlock of mark_sampled_poisson/_hash.
MarkProbe(t) ==
    /\ stack[t] # <<>>
    /\ fault = "none"
    /\ Top(t).pc \in {"mark_poisson", "mark_hash"}
    /\ LET f == Top(t)
       IN  IF f.pc = "mark_poisson"
           THEN /\ g_sampled_addrs_poisson' =
                        mark_sampled(g_sampled_addrs_poisson, f.ptr)
                /\ g_sampled_lock_poisson' = NoThread
                /\ alloc' = [alloc EXCEPT ![f.ptr].marked = TRUE,
                                          ![f.ptr].inserted =
                        InsertSlotFrom(g_sampled_addrs_poisson, f.ptr, 0) # -1]
                /\ stack' = SetTop(t, [f EXCEPT !.pc =
                        IF g_combined_mode /\ f.hash_tracked
                        THEN "mark_lock_hash" ELSE "emit"])
                /\ UNCHANGED <<g_sampled_addrs_hash, g_sampled_lock_hash>>
           ELSE /\ g_sampled_addrs_hash' =
                        mark_sampled(g_sampled_addrs_hash, f.ptr)
                /\ g_sampled_lock_hash' = NoThread
                /\ stack' = SetTop(t, [f EXCEPT !.pc = "emit"])
                /\ UNCHANGED <<g_sampled_addrs_poisson, g_sampled_lock_poisson,
                               alloc>>
    /\ UNCHANGED <<cfgvars, timevars, t_in_wrapper, tstate, out, fault, budget, nest,
                   lastRet, hist, hashDecisions>>

\* The record malloc prints: the combined format or the single-scheme one.
MallocRecord(f) ==
    IF g_combined_mode
    THEN [kind |-> "MALLOC", addr |-> f.ptr, size |-> f.size, weight |-> 0,
          combined |-> TRUE,
          pois_tracked |-> IF f.pois_tracked THEN 1 ELSE 0,
          pois_size |-> f.pois_size,
          hash_tracked |-> IF f.hash_tracked THEN 1 ELSE 0,
          hash_size |-> f.hash_size]
    ELSE [kind |-> "MALLOC", addr |-> f.ptr, size |-> f.size,
          weight |-> f.reported_size, combined |-> FALSE,
          pois_tracked |-> 0, pois_size |-> 0, hash_tracked |-> 0,
          hash_size |-> 0]

\* The record free prints.
FreeRecord(f) ==
    IF g_combined_mode
    THEN [kind |-> "FREE", addr |-> f.ptr, size |-> -1, weight |-> -1,
          combined |-> TRUE,
          pois_tracked |-> IF f.pois_tracked THEN 1 ELSE 0, pois_size |-> -1,
          hash_tracked |-> IF f.hash_tracked THEN 1 ELSE 0, hash_size |-> -1]
    ELSE [kind |-> "FREE", addr |-> f.ptr, size |-> -1, weight |-> -1,
          combined |-> FALSE, pois_tracked |-> 0, pois_size |-> 0,
          hash_tracked |-> 0, hash_size |-> 0]

\* A free that calls real_free before it prints its record.
Emit_AfterHostFree(t) ==
    /\ AtPc(t, "emit")
    /\ LET f == [Top(t) EXCEPT !.emitted = @ + 1]
       IN  IF f.op = "malloc"
           THEN /\ out' = Append(out, MallocRecord(f))
                /\ alloc' = [alloc EXCEPT ![f.ptr].emitted = TRUE,
                                          ![f.ptr].st = Handed(f)]
                /\ MallocReturn(t, f, f.ptr)
           ELSE /\ out' = Append(out, FreeRecord(f))
                /\ stack' = SetTop(t, [f EXCEPT !.pc = "host_free",
                                       !.hostcalls = Append(@, f.ptr)])
                /\ UNCHANGED <<alloc, t_in_wrapper, lastRet>>
    /\ UNCHANGED <<cfgvars, timevars, setvars, tstate, fault, budget, nest, hist, hashDecisions>>

\* printf of the record; malloc then clears the guard and returns ptr, free
\* goes on to real_free.
Emit(t) ==
    /\ AtPc(t, "emit")
    /\ LET f == [Top(t) EXCEPT !.emitted = @ + 1]
       IN  IF f.op = "malloc"
           THEN /\ out' = Append(out, MallocRecord(f))
                /\ alloc' = [alloc EXCEPT ![f.ptr].emitted = TRUE,
                                          ![f.ptr].st = Handed(f)]
                /\ MallocReturn(t, f, f.ptr)
           ELSE /\ out' = Append(out, FreeRecord(f))
                /\ stack' = SetTop(t, [f EXCEPT !.pc = "host_free"])
                /\ UNCHANGED <<alloc, t_in_wrapper, lastRet>>
    /\ UNCHANGED <<cfgvars, timevars, setvars, tstate, fault, budget, nest, hist, hashDecisions>>

(***************************************************************************)
(* free from the release-side decision on.                                 *)
(***************************************************************************)
\* A free that has already given the address back to the host allocator
\* when it starts was_sampled_poisson.
WasLock_AfterHostFree(t) ==
    /\ At(t, "free", "was_lock")
    /\ g_sampled_lock_poisson = NoThread
    /\ g_sampled_lock_poisson' = t
    /\ stack' = SetTop(t, [Top(t) EXCEPT !.pc = "was_probe"])
    /\ alloc' = IF Top(t).ptr \in Heap
                THEN [alloc EXCEPT ![Top(t).ptr] = FreeAlloc]
                ELSE alloc
    /\ UNCHANGED <<cfgvars, timevars, g_sampled_addrs_poisson, g_sampled_addrs_hash,
                   g_sampled_lock_hash, t_in_wrapper, tstate, out,
                   fault, budget, nest, lastRet, hist, hashDecisions>>

\* pthread_mutex_lock(&g_sampled_lock_poisson) in was_sampled_poisson.
WasLock(t) ==
    /\ At(t, "free", "was_lock")
    /\ g_sampled_lock_poisson = NoThread
    /\ g_sampled_lock_poisson' = t
    /\ stack' = SetTop(t, [Top(t) EXCEPT !.pc = "was_probe"])
    /\ UNCHANGED <<cfgvars, timevars, g_sampled_addrs_poisson, g_sampled_addrs_hash,
                   g_sampled_lock_hash, t_in_wrapper, tstate, alloc, out,
                   fault, budget, nest, lastRet, hist, hashDecisions>>

\* The activation of free once was_sampled_poisson has returned found.
FreeDecided(f, found) ==
    IF g_combined_mode
    THEN [f EXCEPT !.pois_tracked = found,
                   !.hash_tracked = was_sampled_hash(f.ptr),
                   !.pc = "emit"]
    ELSE [f EXCEPT !.should_log = found,
                   !.pc = IF found THEN "emit" ELSE "host_free"]

\* The probe loop and the unlock of was_sampled_poisson, and the decision.
WasProbe(t) ==
    /\ At(t, "free", "was_probe")
    /\ LET r == was_sampled_poisson(g_sampled_addrs_poisson, Top(t).ptr)
       IN  /\ g_sampled_addrs_poisson' = r.set
           /\ g_sampled_lock_poisson' = NoThread
           /\ stack' = SetTop(t, FreeDecided(Top(t), r.found))
    /\ UNCHANGED <<cfgvars, timevars, g_sampled_addrs_hash, g_sampled_lock_hash,
                   t_in_wrapper, tstate, alloc, out, fault, budget, nest,
                   lastRet, hist, hashDecisions>>

\* What free's return records of the allocation it released.
FreeRet(f, n) ==
    IF f.ptr \in Heap
    THEN [RetOf(f, NULL, n) EXCEPT
             !.wasLive = TRUE,
             !.wasEmitted = alloc[f.ptr].emitted,
             !.wasMarked = alloc[f.ptr].marked,
             !.wasInserted = alloc[f.ptr].inserted]
    ELSE RetOf(f, NULL, n)

\* "real_free(ptr); t_in_wrapper = false;" and the return.
HostFree(t) ==
    /\ At(t, "free", "host_free")
    /\ IF ~real_free
       THEN /\ fault' = "null_call"
            /\ UNCHANGED <<t_in_wrapper, stack, alloc, lastRet>>
       ELSE LET f == [Top(t) EXCEPT !.hostcalls = Append(@, Top(t).ptr)]
            IN  /\ alloc' = IF f.ptr \in Heap
                            THEN [alloc EXCEPT ![f.ptr] = FreeAlloc]
                            ELSE alloc
                /\ t_in_wrapper' = [t_in_wrapper EXCEPT ![t] = FALSE]
                /\ stack' = Pop(t)
                /\ lastRet' = [lastRet EXCEPT ![t] = FreeRet(f, lastRet[t].n + 1)]
                /\ UNCHANGED fault
    /\ UNCHANGED <<cfgvars, timevars, setvars, tstate, out, budget, nest, hist, hashDecisions>>

(***************************************************************************)
(* malloc with sample_poisson taken one draw at a time.  The activation    *)
(* holds the locals remaining_bytes and nsamples, and loops and drawn: the *)
(* number of draws the loop has made and the sum of all the call's draws.  *)
(***************************************************************************)
\* What malloc does once sample_poisson has returned pois_ret and left the
\* thread state ts: sample_hash and the combined record's fields, or "if
\* (reported_size)".
SamplerDone(t, f, ts, pois_ret) ==
    /\ hist' = [hist EXCEPT ![t] =
                   [sizes |-> @.sizes + f.size, weights |-> @.weights + pois_ret,
                    hashw |-> @.hashw + (IF g_combined_mode
                                         THEN sample_hash(ts, f.ptr).ret
                                         ELSE 0),
                    loops |-> @.loops + f.loops, draws |-> @.draws + f.drawn]]
    /\ IF g_combined_mode
       THEN LET rh == sample_hash(ts, f.ptr)
            IN  /\ tstate' = [tstate EXCEPT ![t] = rh.ts]
                /\ stack' = SetTop(t,
                        [f EXCEPT !.pois_size = pois_ret,
                                  !.hash_size = rh.ret,
                                  !.pois_tracked = pois_ret > 0,
                                  !.hash_tracked = rh.ret > 0,
                                  !.pc = CombinedNextPc(pois_ret, rh.ret)])
                /\ alloc' = [alloc EXCEPT ![f.ptr] =
                        [FreeAlloc EXCEPT !.st = "host"]]
                /\ hashDecisions' = [hashDecisions EXCEPT ![f.ptr] =
                        @ \cup {rh.ret > 0}]
                /\ UNCHANGED <<t_in_wrapper, lastRet>>
       ELSE /\ tstate' = [tstate EXCEPT ![t] = ts]
            /\ UNCHANGED hashDecisions
            /\ IF LegacyNextPc(g_scheme, pois_ret) = "ret"
               THEN /\ MallocReturn(t, f, f.ptr)
                    /\ alloc' = [alloc EXCEPT ![f.ptr] =
                            [FreeAlloc EXCEPT !.st = Handed(f)]]
               ELSE /\ stack' = SetTop(t,
                            [f EXCEPT !.reported_size = pois_ret,
                                      !.pc = LegacyNextPc(g_scheme, pois_ret)])
                    /\ alloc' = [alloc EXCEPT ![f.ptr] =
                            [FreeAlloc EXCEPT !.st = "host"]]
                    /\ UNCHANGED <<t_in_wrapper, lastRet>>

\* "size_t nsamples = remaining_bytes / g_poisson_mean; remaining_bytes =
\* remaining_bytes % g_poisson_mean", entering the do-while.
PoisLoopEntry(f, remaining) ==
    [f EXCEPT !.nsamples = remaining \div g_poisson_mean,
              !.remaining_bytes = remaining % g_poisson_mean,
              !.pc = "pois_loop"]

\* The sampler goes on inside sample_poisson: nothing but the thread state
\* and the activation changes.
SamplerGoesOn(t, f, ts) ==
    /\ tstate' = [tstate EXCEPT ![t] = ts]
    /\ stack' = SetTop(t, f)
    /\ alloc' = [alloc EXCEPT ![f.ptr] = [FreeAlloc EXCEPT !.st = "host"]]
    /\ UNCHANGED <<t_in_wrapper, lastRet, hist, hashDecisions>>

\* "void *ptr = real_malloc(size)" returns p, in a mode that calls
\* sample_poisson; the accumulators, and sample_poisson up to its first draw.
HostMallocCall(t, p) ==
    /\ At(t, "malloc", "host_malloc")
    /\ PoissonCalled
    /\ LET f0 == Top(t)
           f  == [f0 EXCEPT !.hostcalls = Append(@, f0.size), !.hostret = p,
                            !.ptr = p]
           ts == AddSize(tstate[t], f.size)
       IN  IF ~real_malloc
           THEN /\ fault' = "null_call"
                /\ UNCHANGED <<t_in_wrapper, tstate, stack, alloc, lastRet,
                               hist, hashDecisions>>
           ELSE /\ UNCHANGED fault
                /\ IF p = NULL
                   THEN /\ MallocReturn(t, f, NULL)
                        /\ UNCHANGED <<tstate, alloc, hist, hashDecisions>>
                   ELSE IF ts.pois_bytes_until_next < 0
                   THEN SamplerDone(t, f, ts, 0)
                   ELSE IF ~ts.pois_bytes_inited
                   THEN SamplerGoesOn(t,
                            [f EXCEPT !.remaining_bytes =
                                          ts.pois_bytes_until_next,
                                      !.pc = "pois_first"], ts)
                   ELSE SamplerGoesOn(t,
                            PoisLoopEntry(f, ts.pois_bytes_until_next), ts)
    /\ UNCHANGED <<cfgvars, timevars, setvars, out, budget, nest>>

\* The first call's "remaining_bytes -= draw_geometric_bytes(g_poisson_mean);
\* tstate.pois_bytes_inited = true; if (remaining_bytes < 0) ...", the draw
\* being d.
PoisFirst(t, d) ==
    /\ At(t, "malloc", "pois_first")
    /\ LET f  == [Top(t) EXCEPT !.drawn = @ + d]
           r  == f.remaining_bytes - d
           ts == [draw_geometric_bytes(tstate[t]) EXCEPT
                     !.pois_bytes_inited = TRUE]
       IN  IF r < 0
           THEN SamplerDone(t, f, [ts EXCEPT !.pois_bytes_until_next = r], 0)
           ELSE SamplerGoesOn(t, PoisLoopEntry(f, r), ts)
    /\ UNCHANGED <<cfgvars, timevars, setvars, out, fault, budget, nest>>

\* A loop that does not subtract the draw from remaining_bytes.
PoisDraw_NoSubtract(t, d) ==
    /\ At(t, "malloc", "pois_loop")
    /\ Top(t).loops < MaxLoops
    /\ LET f  == [Top(t) EXCEPT !.nsamples = @ + 1, !.loops = @ + 1,
                                !.drawn = @ + d]
           ts == draw_geometric_bytes(tstate[t])
       IN  IF f.remaining_bytes < 0
           THEN SamplerDone(t, f,
                    [ts EXCEPT !.pois_bytes_until_next = f.remaining_bytes],
                    f.nsamples * g_poisson_mean)
           ELSE SamplerGoesOn(t, f, ts)
    /\ UNCHANGED <<cfgvars, timevars, setvars, out, fault, budget, nest>>

\* One iteration of "do { remaining_bytes -= draw_geometric_bytes(...);
\* nsamples++; } while (remaining_bytes >= 0)", the draw being d, and on exit
\* the store of the accumulator and "return nsamples * g_poisson_mean".
\* Draws of 0, which change only the counts, are taken MaxLoops times at most.
PoisDraw(t, d) ==
    /\ At(t, "malloc", "pois_loop")
    /\ d = 0 => Top(t).loops < MaxLoops
    /\ LET f  == [Top(t) EXCEPT !.remaining_bytes = @ - d,
                                !.nsamples = @ + 1, !.loops = @ + 1,
                                !.drawn = @ + d]
           ts == draw_geometric_bytes(tstate[t])
       IN  IF f.remaining_bytes < 0
           THEN SamplerDone(t, f,
                    [ts EXCEPT !.pois_bytes_until_next = f.remaining_bytes],
                    f.nsamples * g_poisson_mean)
           ELSE SamplerGoesOn(t, f, ts)
    /\ UNCHANGED <<cfgvars, timevars, setvars, out, fault, budget, nest>>

\* A draw that is strictly positive.
PoisDrawPositive(t) == \E d \in LoopDraws \ {0} : PoisDraw(t, d)

\* The thread's first draw, whatever its value.
PoisFirstDraw(t) == \E d \in LoopDraws : PoisFirst(t, d)

(***************************************************************************)
(* sampler_timed.c: the same interposer with its sampling decisions timed. *)
(* Its text differs from that of sampler.c in init_sampler (it reads       *)
(* SAMPLER_TIMING), in malloc and in free (the readings of the cycle       *)
(* counter and the calls of record_timing, all under g_timing_enabled).    *)
(* The actions below are translated from it; for the rest the two files    *)
(* hold the same text and the actions above are used.                      *)
(***************************************************************************)
\* The activation about to call record_timing(&g_timing_<stats>, end - start,
\* sampled); it goes on at resume when the call has returned.
CallRecord(f, stats, sampled, resume) ==
    [f EXCEPT !.pc = "rec_call", !.stats = stats, !.sampled = sampled,
              !.resume = resume]

\* The combined branch of malloc and of free once the Poisson half is done:
\* the hash decision is timed and malloc marks the address if it is tracked,
\* then the record is printed.
TimedHashPart(f) ==
    LET next == IF f.op = "malloc" /\ f.hash_tracked THEN "mark_lock_hash"
                ELSE "emit"
    IN  IF g_timing_enabled
        THEN CallRecord(f, IF f.op = "malloc" THEN "hash" ELSE "hash_free",
                        f.hash_tracked, next)
        ELSE [f EXCEPT !.pc = next]

\* The activation once initialisation is known to be done: "t_in_wrapper =
\* true" and on to the next shared access.
TimedProceed(f) ==
    IF f.op = "malloc" THEN [f EXCEPT !.pc = "host_malloc"]
    ELSE IF g_combined_mode \/ g_scheme = "SCHEME_POISSON"
    THEN [f EXCEPT !.pc = "was_lock"]
    ELSE LET log  == FreeShouldLog(f.ptr)
             next == IF log THEN "emit" ELSE "host_free"
             g    == [f EXCEPT !.should_log = log]
         IN  IF g_timing_enabled /\ g_scheme = "SCHEME_STATELESS_HASH"
             THEN CallRecord(g, "hash_free", log, next)
             ELSE [g EXCEPT !.pc = next]

\* void free(void *ptr) of sampler_timed.c: the null check, the guard check
\* and the load of g_initialized.
TimedFree(t, ptr) ==
    /\ CanCall(t)
    /\ ptr \in FreeArgs(t)
    /\ Spend(t)
    /\ LET f == NewFrame(t, "free", 0, ptr)
       IN  IF ptr = NULL \/ t_in_wrapper[t]
           THEN /\ lastRet' = [lastRet EXCEPT ![t] =
                                   RetOf(f, NULL, lastRet[t].n + 1)]
                /\ UNCHANGED <<stack, t_in_wrapper, tstate>>
           ELSE IF g_initialized
           THEN /\ t_in_wrapper' = [t_in_wrapper EXCEPT ![t] = TRUE]
                /\ stack' = Push(t, TimedProceed(f))
                /\ UNCHANGED <<lastRet, tstate>>
           ELSE /\ stack' = Push(t, f)
                /\ UNCHANGED <<lastRet, t_in_wrapper, tstate>>
    /\ alloc' = IF ptr \in Heap
                THEN [alloc EXCEPT ![ptr].st =
                         IF t_in_wrapper[t] THEN "leaked" ELSE "freeing"]
                ELSE alloc
    /\ UNCHANGED <<cfgvars, timevars, setvars, out, fault, hist,
                   hashDecisions>>

\* if (atomic_load(&g_initialized)) return;
TimedInitEnter(t) ==
    /\ AtPc(t, "init_enter")
    /\ IF g_initialized
       THEN /\ t_in_wrapper' = [t_in_wrapper EXCEPT ![t] = TRUE]
            /\ stack' = SetTop(t, TimedProceed(Top(t)))
       ELSE /\ stack' = SetTop(t, [Top(t) EXCEPT !.pc = "init_lock"])
            /\ UNCHANGED t_in_wrapper
    /\ UNCHANGED <<cfgvars, timevars, setvars, tstate, alloc, out, fault,
                   budget, nest, lastRet, hist, hashDecisions>>

\* An init_sampler that enables timing whenever SAMPLER_TIMING is set
\* ('strcmp(env_timing, "1") == 0' left out).
TimedInitConfig_AnyValue(t) ==
    /\ AtPc(t, "init_config")
    /\ g_combined_mode' = IF env.scheme = "COMBINED" THEN TRUE
                          ELSE g_combined_mode
    /\ g_scheme' = IF env.scheme = "" THEN g_scheme ELSE SchemeOf(env.scheme)
    /\ g_poisson_mean' = IF env.mean # "" /\ Atol(env.mean) > 0
                         THEN Atol(env.mean) ELSE g_poisson_mean
    /\ g_timing_enabled' = IF env.timing # "" THEN TRUE ELSE g_timing_enabled
    /\ stack' = SetTop(t, [Top(t) EXCEPT !.pc = "init_publish"])
    /\ UNCHANGED <<env, g_initialized, g_init_lock, real_malloc, real_free,
                   g_timing, recorded, setvars, t_in_wrapper, tstate, alloc,
                   out, fault, budget, nest, lastRet, hist, hashDecisions>>

\* The environment is parsed into g_combined_mode, g_scheme, g_poisson_mean
\* and g_timing_enabled.
TimedInitConfig(t) ==
    /\ AtPc(t, "init_config")
    /\ g_combined_mode' = IF env.scheme = "COMBINED" THEN TRUE
                          ELSE g_combined_mode
    /\ g_scheme' = IF env.scheme = "" THEN g_scheme ELSE SchemeOf(env.scheme)
    /\ g_poisson_mean' = IF env.mean # "" /\ Atol(env.mean) > 0
                         THEN Atol(env.mean) ELSE g_poisson_mean
    /\ g_timing_enabled' = IF env.timing = "1" THEN TRUE ELSE g_timing_enabled
    /\ stack' = SetTop(t, [Top(t) EXCEPT !.pc = "init_publish"])
    /\ UNCHANGED <<env, g_initialized, g_init_lock, real_malloc, real_free,
                   g_timing, recorded, setvars, t_in_wrapper, tstate, alloc,
                   out, fault, budget, nest, lastRet, hist, hashDecisions>>

\* pthread_mutex_unlock(&g_init_lock), the return to malloc/free, and
\* "t_in_wrapper = true".
TimedInitUnlock(t) ==
    /\ AtPc(t, "init_unlock")
    /\ g_init_lock' = NoThread
    /\ t_in_wrapper' = [t_in_wrapper EXCEPT ![t] = TRUE]
    /\ stack' = SetTop(t, TimedProceed(Top(t)))
    /\ UNCHANGED <<env, timevars, g_initialized, real_malloc, real_free,
                   g_scheme, g_combined_mode, g_poisson_mean, setvars, tstate,
                   alloc, out, fault, budget, nest, lastRet, hist,
                   hashDecisions>>

\* "void *ptr = real_malloc(size)" returns p; then the accumulators and the
\* samplers (thread-local), up to the first call of record_timing, the first
\* lock, the printf or the return.
TimedHostMalloc(t, p, ds) ==
    /\ At(t, "malloc", "host_malloc")
    /\ LET f0 == Top(t)
           f  == [f0 EXCEPT !.hostcalls = Append(@, f0.size), !.hostret = p,
                            !.ptr = p]
       IN  IF ~real_malloc
           THEN /\ fault' = "null_call"
                /\ UNCHANGED <<t_in_wrapper, tstate, stack, alloc, lastRet,
                               hist, hashDecisions>>
           ELSE IF p = NULL
           THEN /\ ds = <<>>
                /\ MallocReturn(t, f, NULL)
                /\ UNCHANGED <<tstate, alloc, hist, fault, hashDecisions>>
           ELSE IF g_combined_mode
           THEN LET r == CombinedSample(tstate[t], p, f.size, g_poisson_mean, ds)
                    g == [f EXCEPT !.pois_size = r.pois_size,
                                   !.hash_size = r.hash_size,
                                   !.pois_tracked = r.pois_size > 0,
                                   !.hash_tracked = r.hash_size > 0]
                IN  /\ r.ok /\ r.used = Len(ds)
                    /\ tstate' = [tstate EXCEPT ![t] = r.ts]
                    /\ hist' = [hist EXCEPT ![t] =
                            HistAfter(@, f.size, r.pois_size, r.hash_size,
                                      r.loops, ds)]
                    /\ stack' = SetTop(t,
                            IF g_timing_enabled
                            THEN CallRecord(g, "poisson", g.pois_tracked,
                                            IF g.pois_tracked
                                            THEN "mark_lock_poisson"
                                            ELSE "rec_hash")
                            ELSE IF g.pois_tracked
                            THEN [g EXCEPT !.pc = "mark_lock_poisson"]
                            ELSE TimedHashPart(g))
                    /\ alloc' = [alloc EXCEPT ![p] =
                            [FreeAlloc EXCEPT !.st = "host"]]
                    /\ hashDecisions' = [hashDecisions EXCEPT ![p] =
                            @ \cup {r.hash_size > 0}]
                    /\ UNCHANGED <<t_in_wrapper, lastRet, fault>>
           ELSE LET r == LegacySample(g_scheme, tstate[t], p, f.size,
                                      g_poisson_mean, ds)
                    pc == LegacyNextPc(g_scheme, r.ret)
                    timed == /\ g_timing_enabled
                             /\ g_scheme \in {"SCHEME_POISSON",
                                              "SCHEME_STATELESS_HASH"}
                IN  /\ r.ok /\ r.used = Len(ds)
                    /\ tstate' = [tstate EXCEPT ![t] = r.ts]
                    /\ hist' = [hist EXCEPT ![t] =
                            HistAfter(@, f.size,
                                      IF g_scheme = "SCHEME_POISSON"
                                      THEN r.ret ELSE 0,
                                      IF g_scheme = "SCHEME_STATELESS_HASH"
                                      THEN r.ret ELSE 0, r.loops, ds)]
                    /\ fault' = fault
                    /\ hashDecisions' =
                            IF g_scheme = "SCHEME_STATELESS_HASH"
                            THEN [hashDecisions EXCEPT ![p] = @ \cup {r.ret > 0}]
                            ELSE hashDecisions
                    /\ IF timed
                       THEN /\ stack' = SetTop(t,
                                    CallRecord([f EXCEPT !.reported_size = r.ret],
                                               IF g_scheme = "SCHEME_POISSON"
                                               THEN "poisson" ELSE "hash",
                                               r.ret > 0, pc))
                            /\ alloc' = [alloc EXCEPT ![p] =
                                    [FreeAlloc EXCEPT !.st = "host"]]
                            /\ UNCHANGED <<t_in_wrapper, lastRet>>
                       ELSE IF pc = "ret"
                       THEN /\ MallocReturn(t, f, p)
                            /\ alloc' = [alloc EXCEPT ![p] =
                                    [FreeAlloc EXCEPT !.st = Handed(f)]]
                       ELSE /\ stack' = SetTop(t,
                                    [f EXCEPT !.reported_size = r.ret,
                                              !.pc = pc])
                            /\ alloc' = [alloc EXCEPT ![p] =
                                    [FreeAlloc EXCEPT !.st = "host"]]
                            /\ UNCHANGED <<t_in_wrapper, lastRet>>
    /\ UNCHANGED <<cfgvars, timevars, setvars, out, budget, nest>>

\* The probe loop and the unlock of mark_sampled_poisson/_hash, and what
\* malloc does next.
TimedMarkProbe(t) ==
    /\ stack[t] # <<>>
    /\ fault = "none"
    /\ Top(t).pc \in {"mark_poisson", "mark_hash"}
    /\ LET f == Top(t)
       IN  IF f.pc = "mark_poisson"
           THEN /\ g_sampled_addrs_poisson' =
                        mark_sampled(g_sampled_addrs_poisson, f.ptr)
                /\ g_sampled_lock_poisson' = NoThread
                /\ alloc' = [alloc EXCEPT ![f.ptr].marked = TRUE,
                                          ![f.ptr].inserted =
                        InsertSlotFrom(g_sampled_addrs_poisson, f.ptr, 0) # -1]
                /\ stack' = SetTop(t, IF g_combined_mode THEN TimedHashPart(f)
                                      ELSE [f EXCEPT !.pc = "emit"])
                /\ UNCHANGED <<g_sampled_addrs_hash, g_sampled_lock_hash>>
           ELSE /\ g_sampled_addrs_hash' =
                        mark_sampled(g_sampled_addrs_hash, f.ptr)
                /\ g_sampled_lock_hash' = NoThread
                /\ stack' = SetTop(t, [f EXCEPT !.pc = "emit"])
                /\ UNCHANGED <<g_sampled_addrs_poisson, g_sampled_lock_poisson,
                               alloc>>
    /\ UNCHANGED <<cfgvars, timevars, t_in_wrapper, tstate, out, fault,
                   budget, nest, lastRet, hist, hashDecisions>>

\* The probe loop and the unlock of was_sampled_poisson, and the decision.
TimedWasProbe(t) ==
    /\ At(t, "free", "was_probe")
    /\ LET r == was_sampled_poisson(g_sampled_addrs_poisson, Top(t).ptr)
           \* The activation once was_sampled_poisson has returned found.
           TimedFreeDecided(f, found) ==
               IF g_combined_mode
               THEN LET g == [f EXCEPT !.pois_tracked = found,
                                       !.hash_tracked = was_sampled_hash(f.ptr)]
                    IN  IF g_timing_enabled
                        THEN CallRecord(g, "poisson_free", found, "rec_hash")
                        ELSE TimedHashPart(g)
               ELSE LET g    == [f EXCEPT !.should_log = found]
                        next == IF found THEN "emit" ELSE "host_free"
                    IN  IF g_timing_enabled
                        THEN CallRecord(g, "poisson_free", found, next)
                        ELSE [g EXCEPT !.pc = next]
       IN  /\ g_sampled_addrs_poisson' = r.set
           /\ g_sampled_lock_poisson' = NoThread
           /\ stack' = SetTop(t, TimedFreeDecided(Top(t), r.found))
    /\ UNCHANGED <<cfgvars, timevars, g_sampled_addrs_hash,
                   g_sampled_lock_hash, t_in_wrapper, tstate, alloc, out,
                   fault, budget, nest, lastRet, hist, hashDecisions>>

(***************************************************************************)
(* record_timing, one atomic operation at a time.  The activation holds    *)
(* its arguments stats, cycles and sampled and its local current_min /     *)
(* current_max (current).                                                  *)
(***************************************************************************)
\* What a step of record_timing leaves alone, the counters apart.
RecFrame ==
    UNCHANGED <<cfgvars, g_timing_enabled, setvars, t_in_wrapper, tstate,
                alloc, out, fault, budget, nest, lastRet, hist,
                hashDecisions>>

\* The second reading of the cycle counter and the call: cycles is
\* "end - start".
RecCall(t, cycles) ==
    /\ AtPc(t, "rec_call")
    /\ stack' = SetTop(t, [Top(t) EXCEPT !.cycles = cycles,
                                         !.pc = "rec_calls"])
    /\ recorded' = [recorded EXCEPT ![Top(t).stats] =
                       [vals |-> @.vals \cup {cycles}, calls |-> @.calls + 1]]
    /\ UNCHANGED g_timing
    /\ RecFrame

\* atomic_fetch_add(&stats->total_calls, 1)
RecCalls(t) ==
    /\ AtPc(t, "rec_calls")
    /\ g_timing' = [g_timing EXCEPT ![Top(t).stats].total_calls =
                       U64Add(@, U64(1))]
    /\ stack' = SetTop(t, [Top(t) EXCEPT !.pc = "rec_cycles"])
    /\ UNCHANGED recorded
    /\ RecFrame

\* atomic_fetch_add(&stats->total_cycles, cycles); if (sampled)
RecCycles(t) ==
    /\ AtPc(t, "rec_cycles")
    /\ g_timing' = [g_timing EXCEPT ![Top(t).stats].total_cycles =
                       U64Add(@, Top(t).cycles)]
    /\ stack' = SetTop(t, [Top(t) EXCEPT !.pc =
                     IF Top(t).sampled THEN "rec_samples"
                     ELSE "rec_min_load"])
    /\ UNCHANGED recorded
    /\ RecFrame

\* atomic_fetch_add(&stats->samples_taken, 1)
RecSamples(t) ==
    /\ AtPc(t, "rec_samples")
    /\ g_timing' = [g_timing EXCEPT ![Top(t).stats].samples_taken =
                       U64Add(@, U64(1))]
    /\ stack' = SetTop(t, [Top(t) EXCEPT !.pc = "rec_min_load"])
    /\ UNCHANGED recorded
    /\ RecFrame

\* uint64_t current_min = atomic_load(&stats->min_cycles); while (cycles <
\* current_min)
RecMinLoad(t) ==
    /\ AtPc(t, "rec_min_load")
    /\ LET cur == g_timing[Top(t).stats].min_cycles
       IN  stack' = SetTop(t, [Top(t) EXCEPT !.current = cur, !.pc =
                         IF U64Less(Top(t).cycles, cur) THEN "rec_min_cas"
                         ELSE "rec_max_load"])
    /\ UNCHANGED <<g_timing, recorded>>
    /\ RecFrame

\* A minimum stored without the comparison being repeated: a plain store
\* where the code has atomic_compare_exchange_weak.
RecMinCas_PlainStore(t) ==
    /\ AtPc(t, "rec_min_cas")
    /\ g_timing' = [g_timing EXCEPT ![Top(t).stats].min_cycles =
                       Top(t).cycles]
    /\ stack' = SetTop(t, [Top(t) EXCEPT !.pc = "rec_max_load"])
    /\ UNCHANGED recorded
    /\ RecFrame

\* atomic_compare_exchange_weak(&stats->min_cycles, &current_min, cycles):
\* it stores cycles and the loop ends, or it fails (it may when the values
\* are equal, too), current_min becomes the value found and the loop tests
\* it again.
RecMinCas(t) ==
    /\ AtPc(t, "rec_min_cas")
    /\ LET f   == Top(t)
           now == g_timing[f.stats].min_cycles
       IN  \/ /\ now = f.current
              /\ g_timing' = [g_timing EXCEPT ![f.stats].min_cycles = f.cycles]
              /\ stack' = SetTop(t, [f EXCEPT !.pc = "rec_max_load"])
           \/ /\ stack' = SetTop(t, [f EXCEPT !.current = now, !.pc =
                             IF U64Less(f.cycles, now) THEN "rec_min_cas"
                             ELSE "rec_max_load"])
              /\ UNCHANGED g_timing
    /\ UNCHANGED recorded
    /\ RecFrame

\* uint64_t current_max = atomic_load(&stats->max_cycles); while (cycles >
\* current_max)
RecMaxLoad(t) ==
    /\ AtPc(t, "rec_max_load")
    /\ LET cur == g_timing[Top(t).stats].max_cycles
       IN  stack' = SetTop(t, [Top(t) EXCEPT !.current = cur, !.pc =
                         IF U64Less(cur, Top(t).cycles) THEN "rec_max_cas"
                         ELSE "rec_done"])
    /\ UNCHANGED <<g_timing, recorded>>
    /\ RecFrame

\* atomic_compare_exchange_weak(&stats->max_cycles, &current_max, cycles)
RecMaxCas(t) ==
    /\ AtPc(t, "rec_max_cas")
    /\ LET f   == Top(t)
           now == g_timing[f.stats].max_cycles
       IN  \/ /\ now = f.current
              /\ g_timing' = [g_timing EXCEPT ![f.stats].max_cycles = f.cycles]
              /\ stack' = SetTop(t, [f EXCEPT !.pc = "rec_done"])
           \/ /\ stack' = SetTop(t, [f EXCEPT !.current = now, !.pc =
                             IF U64Less(now, f.cycles) THEN "rec_max_cas"
                             ELSE "rec_done"])
              /\ UNCHANGED g_timing
    /\ UNCHANGED recorded
    /\ RecFrame

\* record_timing returns and the caller goes on: to the hash half of the
\* combined branch, to a lock, to the printf, to real_free, or malloc returns
\* the address at once (single scheme, not selected).
RecDone(t) ==
    /\ AtPc(t, "rec_done")
    /\ LET f == Top(t)
       IN  IF f.resume = "ret"
           THEN /\ MallocReturn(t, f, f.ptr)
                /\ alloc' = [alloc EXCEPT ![f.ptr] =
                                [FreeAlloc EXCEPT !.st = Handed(f)]]
           ELSE /\ stack' = SetTop(t, IF f.resume = "rec_hash"
                                      THEN TimedHashPart(f)
                                      ELSE [f EXCEPT !.pc = f.resume])
                /\ UNCHANGED <<t_in_wrapper, lastRet, alloc>>
    /\ UNCHANGED <<cfgvars, timevars, setvars, tstate, out, fault, budget,
                   nest, hist, hashDecisions>>

(***************************************************************************)
(* The specifications.                                                     *)
(***************************************************************************)
Next ==
    \E t \in Threads :
        \/ \E size \in Sizes : Malloc(t, size)
        \/ \E ptr \in {NULL} \cup Addrs \cup LibAddrs : Free(t, ptr)
        \/ InitEnter(t)
        \/ InitLock(t)
        \/ InitCheck(t)
        \/ InitResolve(t)
        \/ InitConfig(t)
        \/ InitPublish(t)
        \/ InitUnlock(t)
        \/ \E p \in HostFreeAddrs : \E ds \in DrawSeqs : HostMalloc(t, p, ds)
        \/ MarkLock(t)
        \/ MarkProbe(t)
        \/ Emit(t)
        \/ WasLock(t)
        \/ WasProbe(t)
        \/ HostFree(t)

\* A program that starts by allocating MAX_PROBE blocks of 3 bytes and keeping
\* them, and is then free to allocate, or to release the first or the last
\* blocks it was given; a host allocator that hands out the lowest address
\* not in use and fails when there is none; draws that are never 0.
Filling(t) == stack[t] = <<>> /\ budget[t] > MaxSatCalls
SatFrees == {NULL, 1024, 1024 + (MAX_PROBE - 1) * 16777216,
             1024 + MAX_PROBE * 16777216}
SatDrawSeqs == {q \in DrawSeqs : \A i \in DOMAIN q : q[i] # 0}
FirstFit ==
    IF HostFreeAddrs = {NULL} THEN NULL
    ELSE CHOOSE a \in HostFreeAddrs \ {NULL} :
            \A b \in HostFreeAddrs \ {NULL} : a <= b

NextSat ==
    \E t \in Threads :
        \/ \E size \in Sizes : (Filling(t) => size = 3) /\ Malloc(t, size)
        \/ \E ptr \in SatFrees \cup LibAddrs : ~Filling(t) /\ Free(t, ptr)
        \/ InitEnter(t)
        \/ InitLock(t)
        \/ InitCheck(t)
        \/ InitResolve(t)
        \/ InitConfig(t)
        \/ InitPublish(t)
        \/ InitUnlock(t)
        \/ \E ds \in SatDrawSeqs : HostMalloc(t, FirstFit, ds)
        \/ MarkLock(t)
        \/ MarkProbe(t)
        \/ Emit(t)
        \/ WasLock(t)
        \/ WasProbe(t)
        \/ HostFree(t)

\* Allocations only, with the sampler taken draw by draw.
NextLoop ==
    \E t \in Threads :
        \/ \E size \in Sizes : Malloc(t, size)
        \/ InitEnter(t)
        \/ InitLock(t)
        \/ InitCheck(t)
        \/ InitResolve(t)
        \/ InitConfig(t)
        \/ InitPublish(t)
        \/ InitUnlock(t)
        \/ \E p \in HostFreeAddrs : HostMallocCall(t, p)
        \/ PoisFirstDraw(t)
        \/ \E d \in LoopDraws : PoisDraw(t, d)
        \/ MarkLock(t)
        \/ MarkProbe(t)
        \/ Emit(t)

\* sampler_timed.c, the calls of the program only (none made by library code
\* from inside a call).
NextTimed ==
    \E t \in Threads :
        \/ \E size \in Sizes : stack[t] = <<>> /\ Malloc(t, size)
        \/ \E ptr \in {NULL} \cup Addrs : stack[t] = <<>> /\ TimedFree(t, ptr)
        \/ TimedInitEnter(t)
        \/ InitLock(t)
        \/ InitCheck(t)
        \/ InitResolve(t)
        \/ TimedInitConfig(t)
        \/ InitPublish(t)
        \/ TimedInitUnlock(t)
        \/ \E p \in HostFreeAddrs : \E ds \in DrawSeqs :
              TimedHostMalloc(t, p, ds)
        \/ MarkLock(t)
        \/ TimedMarkProbe(t)
        \/ Emit(t)
        \/ WasLock(t)
        \/ TimedWasProbe(t)
        \/ HostFree(t)
        \/ \E cycles \in {U64(0), U64(7), UINT64_MAX} : RecCall(t, cycles)
        \/ RecCalls(t)
        \/ RecCycles(t)
        \/ RecSamples(t)
        \/ RecMinLoad(t)
        \/ RecMinCas(t)
        \/ RecMaxLoad(t)
        \/ RecMaxCas(t)
        \/ RecDone(t)

Spec == Init /\ [][Next]_vars
SpecTimed == InitTimed /\ [][NextTimed]_vars
\* A thread inside sample_poisson keeps running, and draw_geometric_bytes
\* does not return 0 for ever.
SpecLoop ==
    /\ InitLoop
    /\ [][NextLoop]_vars
    /\ \A t \in Threads : WF_vars(PoisFirstDraw(t)) /\ WF_vars(PoisDrawPositive(t))
SpecSat == InitSat /\ [][NextSat]_vars
SpecSeq == InitSeq /\ [][Next]_vars
SpecEnv == InitEnv /\ [][Next]_vars

(***************************************************************************)
(* Properties.                                                             *)
(***************************************************************************)
PoissonMode ==
    g_initialized /\ ~g_combined_mode /\ g_scheme = "SCHEME_POISSON"
HashMode ==
    g_initialized /\ ~g_combined_mode /\ g_scheme = "SCHEME_STATELESS_HASH"

\* C1: every call of malloc that has returned, nested calls included, called
\* the host malloc exactly once, with its own size, and returned the address
\* the host returned.
C1_MallocForwardsToHost ==
    \A t \in Threads :
        lastRet[t].op = "malloc" =>
            /\ lastRet[t].hostcalls = <<lastRet[t].size>>
            /\ lastRet[t].ret = lastRet[t].hostret

\* C2: every call of free with a non-null address that has returned, nested
\* calls included, called the host free exactly once, with that address.
C2_FreeForwardsToHost ==
    \A t \in Threads :
        (lastRet[t].op = "free" /\ lastRet[t].ptr # NULL) =>
            lastRet[t].hostcalls = <<lastRet[t].ptr>>

\* C3: in single-scheme Poisson mode, the release of an allocation whose
\* MALLOC record was printed and whose address was stored in the Poisson set
\* prints a FREE record.
C3_SampledReleaseEmitsFree ==
    \A t \in Threads :
        (PoissonMode /\ lastRet[t].op = "free" /\ lastRet[t].wasLive
            /\ lastRet[t].wasEmitted /\ lastRet[t].wasInserted) =>
            lastRet[t].emitted = 1

\* C4: in single-scheme Poisson mode, the release of an allocation whose
\* MALLOC record was not printed prints no FREE record.
C4_UnsampledReleaseEmitsNoFree ==
    \A t \in Threads :
        (PoissonMode /\ lastRet[t].op = "free" /\ lastRet[t].wasLive
            /\ ~lastRet[t].wasEmitted) =>
            lastRet[t].emitted = 0

\* C5: in single-scheme hash mode, the release of an allocation prints a FREE
\* record exactly when the allocation printed a MALLOC record.
C5_HashReleaseMatchesAllocation ==
    \A t \in Threads :
        (HashMode /\ lastRet[t].op = "free" /\ lastRet[t].wasLive) =>
            (lastRet[t].emitted = 1 <=> lastRet[t].wasEmitted)

\* C6: all the allocations that returned one address were classified the same
\* way by the hash sampler (all selected, or none).
C6_HashDecisionByAddressOnly ==
    \A a \in Heap : Cardinality(hashDecisions[a]) <= 1

\* C7: whenever a call of malloc or free returns, the thread's guard has the
\* value it had when the call was entered.
C7_GuardRestored ==
    [][\A t \in Threads :
          lastRet'[t].n # lastRet[t].n =>
              t_in_wrapper'[t] = lastRet'[t].g0]_vars

\* C7 witness: one thread has returned from a malloc whose host allocation
\* failed, another from a nested call entered with the guard set.
C7_Witness ==
    \E t, u \in Threads :
        /\ lastRet[t].op = "malloc" /\ ~lastRet[t].nested
        /\ lastRet[t].hostcalls # <<>> /\ lastRet[t].ret = NULL
        /\ lastRet[u].nested /\ lastRet[u].g0 /\ t_in_wrapper[u]

\* C8: on each thread at most one activation of malloc or free is past the
\* guard check at any time (an activation is on the thread's stack exactly
\* when it has passed "if (t_in_wrapper) return").
C8_OneActivationPastGuardCheck ==
    \A t \in Threads : Len(stack[t]) <= 1

\* C9: a nested call made with the guard set returns in the step that makes
\* it and leaves the thread's sampler state, both selected-address sets and
\* the record stream as they were.
C9_NestedCallHasNoSamplingEffect ==
    [][\A t \in Threads :
          (nest'[t] # nest[t] /\ t_in_wrapper[t]) =>
              /\ lastRet'[t].n = lastRet[t].n + 1
              /\ UNCHANGED <<tstate, g_sampled_addrs_poisson,
                             g_sampled_addrs_hash, out>>]_vars

\* C9 witness: a nested free of a non-null address, made with the guard set
\* by a thread whose hash accumulator is positive, has returned.
C9_Witness ==
    \E t \in Threads :
        /\ lastRet[t].op = "free" /\ lastRet[t].nested /\ lastRet[t].g0
        /\ lastRet[t].ptr # NULL
        /\ tstate[t].hash_running_bytes > 0

\* C10 as stated: between calls, bytes_until_next is the sum of the sizes
\* allocated on the thread minus the sum of the reported Poisson weights.
C10_AccumulatorIsSizesMinusWeights ==
    \A t \in Threads :
        stack[t] = <<>> =>
            tstate[t].pois_bytes_until_next = hist[t].sizes - hist[t].weights

\* C10 amended: between calls, bytes_until_next is the sum of the sizes of
\* the thread's successful allocations, minus the reported Poisson weights,
\* plus the mean times the number of draws made in the sampling loop, minus
\* the sum of all the draws made (the initial draw included).
C10_AccumulatorBalance ==
    \A t \in Threads :
        stack[t] = <<>> =>
            tstate[t].pois_bytes_until_next =
                hist[t].sizes - hist[t].weights
                    + g_poisson_mean * hist[t].loops - hist[t].draws

\* C10 witness: a thread between calls whose Poisson sampler has fired and
\* has drawn a positive number of bytes.
C10_Witness ==
    \E t \in Threads :
        /\ stack[t] = <<>>
        /\ hist[t].weights > 0 /\ hist[t].loops > 0 /\ hist[t].draws > 0

(***************************************************************************)
(* Steps of malloc seen from outside: the step in which real_malloc        *)
(* returns and the thread-local part of malloc runs.                       *)
(***************************************************************************)
\* Thread t takes the step "ptr = real_malloc(size)" (and what follows it up
\* to the first lock, the printf or the return).
HostMallocStep(t) ==
    /\ stack[t] # <<>>
    /\ Top(t).pc = "host_malloc"
    /\ stack'[t] # stack[t]

\* The address real_malloc returned in that step.
HostRet(t) ==
    IF Len(stack'[t]) = Len(stack[t])
    THEN stack'[t][Len(stack'[t])].ptr
    ELSE lastRet'[t].ptr

\* The step of a successful allocation.
AllocStep(t) == HostMallocStep(t) /\ HostRet(t) # NULL

\* malloc calls sample_hash (combined mode or single-scheme hash mode).
HashSamplerRuns == g_combined_mode \/ g_scheme = "SCHEME_STATELESS_HASH"

\* The hash sampler fires in the step: it runs and the address matches.
HashFires(t) == HashSamplerRuns /\ HashHit(HostRet(t))

\* C11 as stated: hash_running_bytes is zero right after the hash sampler
\* fires, and every successful allocation that does not fire leaves it
\* strictly greater than it was.
C11_HashBytesStrictlyIncreasing ==
    [][\A t \in Threads :
          AllocStep(t) =>
              IF HashFires(t)
              THEN tstate'[t].hash_running_bytes = 0
              ELSE tstate'[t].hash_running_bytes
                       > tstate[t].hash_running_bytes]_vars

\* C11 amended: hash_running_bytes is zero right after the hash sampler
\* fires, and every successful allocation that does not fire adds its size
\* to it (so it never decreases, and grows strictly when the size is
\* positive).
C11_HashBytesGrowBySize ==
    [][\A t \in Threads :
          AllocStep(t) =>
              IF HashFires(t)
              THEN tstate'[t].hash_running_bytes = 0
              ELSE tstate'[t].hash_running_bytes
                       = tstate[t].hash_running_bytes + Top(t).size]_vars

\* C11 witness: in hash mode a thread's sampler has fired (its sizes sum to
\* more than the running bytes) and a later allocation has grown the
\* running bytes again.
C11_Witness ==
    \E t \in Threads :
        /\ HashSamplerRuns /\ stack[t] = <<>>
        /\ tstate[t].hash_running_bytes > 0
        /\ hist[t].sizes > tstate[t].hash_running_bytes

\* C12: when real_malloc returns NULL, malloc returns NULL in that step with
\* the guard cleared; it prints nothing, changes neither selected-address
\* set and runs no sampler (the thread's sampler state is untouched, no draw
\* is made).
C12_HostFailureReturnsNull ==
    [][\A t \in Threads :
          (HostMallocStep(t) /\ HostRet(t) = NULL) =>
              /\ lastRet'[t].n = lastRet[t].n + 1
              /\ lastRet'[t].op = "malloc"
              /\ lastRet'[t].ret = NULL
              /\ lastRet'[t].emitted = 0
              /\ t_in_wrapper'[t] = FALSE
              /\ UNCHANGED <<out, g_sampled_addrs_poisson,
                             g_sampled_addrs_hash, tstate, hist>>]_vars

\* C12 witness: a malloc of a positive size whose host allocation failed has
\* returned on a thread whose samplers are configured and have run before.
C12_Witness ==
    \E t \in Threads :
        /\ g_initialized /\ (g_combined_mode \/ g_scheme # "SCHEME_NONE")
        /\ lastRet[t].op = "malloc" /\ ~lastRet[t].nested
        /\ lastRet[t].hostcalls # <<>> /\ lastRet[t].ret = NULL
        /\ lastRet[t].size > 0
        /\ hist[t].sizes > 0

\* C13: when real_malloc returns NULL for a request of size s, both of the
\* thread's byte accumulators have grown by s when malloc returns.
C13_HostFailureStillCounts ==
    [][\A t \in Threads :
          (HostMallocStep(t) /\ HostRet(t) = NULL) =>
              /\ tstate'[t].pois_bytes_until_next
                     = tstate[t].pois_bytes_until_next + Top(t).size
              /\ tstate'[t].hash_running_bytes
                     = tstate[t].hash_running_bytes + Top(t).size]_vars

\* Thread t calls free(NULL) in the step: the call either returns in the
\* step or leaves an activation of free with the null address.
FreeNullCall(t) ==
    /\ budget'[t] # budget[t] \/ nest'[t] # nest[t]
    /\ IF Len(stack'[t]) > Len(stack[t])
       THEN /\ stack'[t][Len(stack'[t])].op = "free"
            /\ stack'[t][Len(stack'[t])].ptr = NULL
       ELSE /\ lastRet'[t].n # lastRet[t].n
            /\ lastRet'[t].op = "free"
            /\ lastRet'[t].ptr = NULL

\* C14: a call of free(NULL) returns at once: it prints no record, does not
\* call real_free, takes no lock, does not enter init_sampler and changes no
\* thread-local or process-wide state.
C14_FreeNullIsNoOp ==
    [][\A t \in Threads :
          FreeNullCall(t) =>
              /\ lastRet'[t].n = lastRet[t].n + 1
              /\ lastRet'[t].hostcalls = <<>>
              /\ lastRet'[t].emitted = 0
              /\ UNCHANGED <<cfgvars, timevars, setvars, t_in_wrapper, tstate, stack,
                             alloc, out, fault, hist, hashDecisions>>]_vars

\* C14 witness: free(NULL) has returned on a thread while the process is
\* still uninitialised and nobody holds the init lock.
C14_Witness ==
    \E t \in Threads :
        /\ ~g_initialized /\ g_init_lock = NoThread
        /\ lastRet[t].op = "free" /\ lastRet[t].ptr = NULL
        /\ ~lastRet[t].nested /\ lastRet[t].n > 0

\* The addresses a selected-address set holds.
Held(set) == {set[k] : k \in DOMAIN set}

\* The record printed in a step that prints one.
Printed == out'[Len(out')]

\* Thread t's activation is the one that moves in the step.
Moves(t) == stack[t] # <<>> /\ stack'[t] # stack[t]

\* C15: a MALLOC record is printed by an activation whose real_malloc call
\* has returned the record's address, while the address is not yet in the
\* caller's hands; a FREE record is printed, and an address is taken out of
\* the Poisson set, by an activation of free that has not yet called
\* real_free.
C15_EmissionOrder ==
    [][/\ (Len(out') > Len(out) /\ Printed.kind = "MALLOC") =>
             /\ alloc[Printed.addr].st = "host"
             /\ \E t \in Threads :
                    /\ Moves(t) /\ Top(t).op = "malloc"
                    /\ Top(t).hostcalls = <<Top(t).size>>
                    /\ Top(t).hostret = Printed.addr
       /\ (Len(out') > Len(out) /\ Printed.kind = "FREE") =>
             \E t \in Threads :
                 /\ Moves(t) /\ Len(stack'[t]) = Len(stack[t])
                 /\ stack'[t][Len(stack'[t])].op = "free"
                 /\ stack'[t][Len(stack'[t])].ptr = Printed.addr
                 /\ stack'[t][Len(stack'[t])].pc = "host_free"
                 /\ stack'[t][Len(stack'[t])].hostcalls = <<>>
       /\ \A a \in Held(g_sampled_addrs_poisson)
                        \ Held(g_sampled_addrs_poisson') :
             \E t \in Threads :
                 /\ Moves(t) /\ Len(stack'[t]) = Len(stack[t])
                 /\ stack'[t][Len(stack'[t])].op = "free"
                 /\ stack'[t][Len(stack'[t])].ptr = a
                 /\ stack'[t][Len(stack'[t])].hostcalls = <<>>]_vars

\* C15 witness: in Poisson mode an activation of free has removed its
\* address from the set and printed its FREE record, and is about to call
\* real_free; the MALLOC record of the address was printed before.
C15_Witness ==
    \E t \in Threads :
        /\ PoissonMode /\ stack[t] # <<>>
        /\ Top(t).op = "free" /\ Top(t).pc = "host_free"
        /\ Top(t).emitted = 1 /\ Top(t).hostcalls = <<>>
        /\ \E i, j \in 1 .. Len(out) :
               /\ i < j
               /\ out[i].kind = "MALLOC" /\ out[i].addr = Top(t).ptr
               /\ out[j].kind = "FREE" /\ out[j].addr = Top(t).ptr

\* Some thread has an activation of free for address a that has not
\* returned.
Releasing(a) ==
    \E t \in Threads : \E i \in 1 .. Len(stack[t]) :
        stack[t][i].op = "free" /\ stack[t][i].ptr = a

\* Some thread has an activation of malloc to which real_malloc has returned
\* address a.
Allocating(a) ==
    \E t \in Threads : \E i \in 1 .. Len(stack[t]) :
        stack[t][i].op = "malloc" /\ stack[t][i].hostret = a

\* C16: the record and the set update of a release come before those of any
\* later allocation of the same address: when a MALLOC record is printed
\* for an address, or the address is stored in a set, no release of it is
\* still under way; when a FREE record is printed for an address, or the
\* address is taken out of the Poisson set, no later allocation of it has
\* begun.
C16_ReleaseBeforeReuse ==
    [][/\ (Len(out') > Len(out) /\ Printed.kind = "MALLOC") =>
             ~Releasing(Printed.addr)
       /\ \A a \in (Held(g_sampled_addrs_poisson')
                        \ Held(g_sampled_addrs_poisson))
                   \cup (Held(g_sampled_addrs_hash')
                           \ Held(g_sampled_addrs_hash)) :
             ~Releasing(a)
       /\ (Len(out') > Len(out) /\ Printed.kind = "FREE") =>
             ~Allocating(Printed.addr)
       /\ \A a \in Held(g_sampled_addrs_poisson)
                        \ Held(g_sampled_addrs_poisson') :
             ~Allocating(a)]_vars

\* C16 witness: in Poisson mode one thread has released an address, with its
\* FREE record, and another thread has since been handed the same address,
\* with its MALLOC record after that FREE record.
C16_Witness ==
    \E t, u \in Threads : \E a \in Heap :
        /\ PoissonMode /\ t # u
        /\ lastRet[t].op = "free" /\ lastRet[t].ptr = a
        /\ lastRet[t].emitted = 1
        /\ lastRet[u].op = "malloc" /\ lastRet[u].ret = a
        /\ lastRet[u].emitted = 1
        /\ \E i, j \in 1 .. Len(out) :
               /\ i < j
               /\ out[i].kind = "FREE" /\ out[i].addr = a
               /\ out[j].kind = "MALLOC" /\ out[j].addr = a

NoneMode ==
    g_initialized /\ ~g_combined_mode /\ g_scheme = "SCHEME_NONE"

\* C17: with scheme NONE every call of malloc from the program to which
\* real_malloc returned an address, whatever its size, has printed exactly
\* one MALLOC record carrying the requested size, and every call of free from
\* the program with a non-null address has printed exactly one FREE record.
C17_NoneLogsEveryCall ==
    \A t \in Threads :
        (NoneMode /\ ~lastRet[t].nested) =>
            /\ (lastRet[t].op = "malloc" /\ lastRet[t].hostret # NULL) =>
                   /\ lastRet[t].emitted = 1
                   /\ \E i \in 1 .. Len(out) :
                          /\ out[i].kind = "MALLOC"
                          /\ out[i].addr = lastRet[t].ret
                          /\ out[i].size = lastRet[t].size
            /\ (lastRet[t].op = "free" /\ lastRet[t].ptr # NULL) =>
                   lastRet[t].emitted = 1

\* The number of records a returned call r prints when g_scheme is
\* SCHEME_NONE (single-scheme mode).
NoneEmitted(r) ==
    IF r.op = "malloc"
    THEN IF r.hostret # NULL
            /\ LegacyNextPc("SCHEME_NONE",
                   sample("SCHEME_NONE", InitTState, r.hostret, r.size,
                          g_poisson_mean, <<>>).ret) = "emit"
         THEN 1 ELSE 0
    ELSE IF r.ptr # NULL THEN 1 ELSE 0

\* C18: with SAMPLER_SCHEME set to HYBRID, PAGE_HASH or an unrecognised
\* name, every call from the program prints what it prints with
\* SAMPLER_SCHEME=NONE.
C18_ReservedSchemesEmitAsNone ==
    \A t \in Threads :
        (g_initialized /\ env.scheme \in {"HYBRID", "PAGE_HASH", "bogus"}
            /\ lastRet[t].n > 0 /\ ~lastRet[t].nested) =>
            lastRet[t].emitted = NoneEmitted(lastRet[t])

\* Where an activation is after init_sampler: at the host call, a sampler, a
\* set update or the printf.
PostInitPcs ==
    {"host_malloc", "mark_lock_poisson", "mark_poisson", "mark_lock_hash",
     "mark_hash", "emit", "was_lock", "was_probe", "host_free"}

\* Some activation is past init_sampler.
PastInit ==
    \E t \in Threads : \E i \in 1 .. Len(stack[t]) :
        stack[t][i].pc \in PostInitPcs

\* What init_sampler writes before it publishes g_initialized.
config == <<real_malloc, real_free, g_scheme, g_combined_mode, g_poisson_mean>>

\* The configuration that init_sampler stores for the environment.
ConfigStored ==
    /\ real_malloc /\ real_free
    /\ g_combined_mode = (env.scheme = "COMBINED")
    /\ g_scheme = SchemeOf(env.scheme)
    /\ g_poisson_mean = IF Atol(env.mean) > 0 THEN Atol(env.mean)
                        ELSE DEFAULT_POISSON_MEAN

\* C19: the body of init_sampler is entered only while nothing is resolved
\* and the flag is unset (so it runs once); the flag is set only after both
\* handles are resolved and the configuration is stored, and stays set; the
\* configuration is written only while the flag is unset; an activation is
\* past init_sampler only when the flag is set and both handles are
\* resolved, and no call is ever made through a NULL handle.
C19_InitOnce ==
    [][/\ \A t \in Threads :
             (stack[t] # <<>> /\ Top(t).pc = "init_resolve"
                 /\ stack'[t] # stack[t]
                 /\ Len(stack'[t]) = Len(stack[t])) =>
                 (~g_initialized /\ ~real_malloc /\ ~real_free)
       /\ (g_initialized' /\ ~g_initialized) =>
             (ConfigStored /\ config' = config)
       /\ g_initialized => g_initialized'
       /\ config' # config => (~g_initialized /\ ~g_initialized')
       /\ PastInit' => (g_initialized' /\ real_malloc' /\ real_free')
       /\ fault' # "null_call"]_vars

\* C19 witness: a thread that found the flag unset and then waited for the
\* init lock holds it now and finds the flag set by the thread that
\* initialised; that thread is past init_sampler.
C19_Witness ==
    \E t, u \in Threads :
        /\ t # u
        /\ stack[t] # <<>> /\ Top(t).pc = "init_check"
        /\ g_init_lock = t /\ g_initialized
        /\ stack[u] # <<>> /\ Top(u).pc \in PostInitPcs

\* dlsym finds no malloc or no free.
ResolutionFails == ~(env.dlsym_malloc /\ env.dlsym_free)

\* Some activation has gone on in init_sampler after the dlsym calls.
PastResolve ==
    \E t \in Threads : \E i \in 1 .. Len(stack[t]) :
        stack[t][i].pc \in {"init_config", "init_publish", "init_unlock"}

\* C20 as stated: when a host primitive cannot be resolved, the flag is never
\* published, no record is printed, no call goes past the resolution (the
\* resolving thread aborts) or on to the host call, and no call returns to
\* its caller.
C20_ResolutionFailureNothingReturns ==
    ResolutionFails =>
        /\ ~g_initialized /\ out = <<>>
        /\ ~PastResolve /\ ~PastInit
        /\ fault \in {"none", "abort"}
        /\ \A t \in Threads : lastRet[t].n = 0

\* C20 amended: as above, except that a call free(NULL), which returns
\* before init_sampler is reached, does return to its caller; no other call
\* returns.
C20_ResolutionFailureIsFatal ==
    ResolutionFails =>
        /\ ~g_initialized /\ out = <<>>
        /\ ~PastResolve /\ ~PastInit
        /\ fault \in {"none", "abort"}
        /\ \A t \in Threads :
               lastRet[t].n > 0 =>
                   (lastRet[t].op = "free" /\ lastRet[t].ptr = NULL)

\* C20 witness: dlsym found malloc but not free, the process has aborted in
\* init_sampler, and a thread had returned from free(NULL) before that.
C20_Witness ==
    /\ env.dlsym_malloc /\ ~env.dlsym_free
    /\ fault = "abort"
    /\ \E t \in Threads : lastRet[t].n > 0

(***************************************************************************)
(* Locks.                                                                  *)
(***************************************************************************)
\* The thread holding the lock a frame at pc waits for, NoThread when the
\* frame waits for no lock or the lock is free.
WaitsOn(pc) ==
    IF pc = "init_lock" THEN g_init_lock
    ELSE IF pc \in {"mark_lock_poisson", "was_lock"}
    THEN g_sampled_lock_poisson
    ELSE IF pc = "mark_lock_hash" THEN g_sampled_lock_hash
    ELSE NoThread

\* Thread t is in pthread_mutex_lock for a lock that thread u holds.
WaitsFor(t, u) == stack[t] # <<>> /\ WaitsOn(Top(t).pc) = u

\* C21: no reachable state is a deadlock: no thread waits for a lock it
\* holds itself, and no two threads wait for locks the other holds.
C21_NoDeadlock ==
    \A t, u \in Threads : ~(WaitsFor(t, u) /\ WaitsFor(u, t))

\* Thread t holds the lock of a selected-address set.
HoldsSetLock(t) == g_sampled_lock_poisson = t \/ g_sampled_lock_hash = t

\* Thread t comes to hold a lock in the step that it did not hold before.
Acquires(t) ==
    \/ g_init_lock' = t /\ g_init_lock # t
    \/ g_sampled_lock_poisson' = t /\ g_sampled_lock_poisson # t
    \/ g_sampled_lock_hash' = t /\ g_sampled_lock_hash # t

\* Thread t calls real_free in the step.
HostFreeStep(t) ==
    /\ stack[t] # <<>>
    /\ Top(t).pc = "host_free"
    /\ stack'[t] # stack[t]

\* Thread t is in pthread_mutex_lock, or at a printf (which takes the
\* stream's lock), or about to call the host allocator.
AtLockOrHost(t) ==
    /\ stack[t] # <<>>
    /\ \/ WaitsOn(Top(t).pc) # NoThread \/ Top(t).pc = "init_lock"
       \/ Top(t).pc \in {"emit", "host_malloc", "host_free"}

\* C22: a thread that holds the lock of a selected-address set holds no
\* other lock, is not about to take one (another set's lock, the init lock,
\* the stream lock of printf) or to call the host allocator, and no step it
\* takes while holding the lock acquires a lock, prints a record, calls
\* real_malloc or real_free, or enters another call of malloc or free.
C22_SetLockHeldAlone ==
    [][\A t \in Threads : HoldsSetLock(t) =>
          /\ g_init_lock # t
          /\ ~(g_sampled_lock_poisson = t /\ g_sampled_lock_hash = t)
          /\ ~AtLockOrHost(t)
          /\ ~Acquires(t)
          /\ ~HostMallocStep(t)
          /\ ~HostFreeStep(t)
          /\ (Moves(t) => out' = out /\ Len(stack'[t]) = Len(stack[t]))]_vars

\* A thread holds the Poisson set's lock in combined mode for an allocation
\* that the hash sampler selected too, so that the hash set's lock is the
\* next thing it takes, while another thread is inside a wrapper.
C22_Witness ==
    \E t, u \in Threads :
        /\ t # u
        /\ g_sampled_lock_poisson = t
        /\ g_combined_mode
        /\ Top(t).hash_tracked
        /\ stack[u] # <<>>

\* Thread t takes the lock of a selected-address set in the step.
AcquiresSetLock(t) ==
    \/ g_sampled_lock_poisson' = t /\ g_sampled_lock_poisson # t
    \/ g_sampled_lock_hash' = t /\ g_sampled_lock_hash # t

\* The call that thread t is in is one in which a sample fires: a malloc
\* whose sampler returned a positive weight, or a free of an address whose
\* allocation a sampler selected (it was stored in the Poisson set, or its
\* hash matches the mask while the hash sampler runs).
SampleFires(t) ==
    LET f == Top(t)
    IN  IF f.op = "malloc"
        THEN f.pois_size > 0 \/ f.hash_size > 0 \/ f.reported_size > 0
        ELSE /\ f.ptr \in Heap
             /\ \/ alloc[f.ptr].inserted
                \/ HashSamplerRuns /\ HashHit(f.ptr)

\* C23: a thread takes the lock of a selected-address set only inside a call
\* in which a sample fires; a malloc that is not selected and a free of an
\* address that was never selected take no set lock.
C23_SetLockOnlyWhenSampleFires ==
    [][\A t \in Threads : AcquiresSetLock(t) => SampleFires(t)]_vars

\* Every slot of ptr's probe chain holds an address other than ptr.
Saturated(set, ptr) ==
    \A i \in 0 .. MAX_PROBE - 1 : Slot(set, ProbeSlot(ptr, i)) \notin {NULL, ptr}

\* Thread t runs the probe loop of mark_sampled_poisson in the step, on a
\* saturated chain.
SaturatedInsert(t) ==
    /\ Moves(t)
    /\ Top(t).pc = "mark_poisson"
    /\ Saturated(g_sampled_addrs_poisson, Top(t).ptr)

\* A call of thread t returns in the step.
Returns(t) == lastRet'[t].n # lastRet[t].n

\* C24: when all 100 slots of an address's probe chain hold other addresses,
\* mark_sampled_poisson leaves the set as it was and raises no error, and
\* malloc goes on: it returns the address having printed its MALLOC record;
\* the later free of the address calls real_free with it and finds it not
\* Poisson-tracked: no FREE record in Poisson mode, a FREE record with
\* pois_tracked 0 in combined mode.
C24_SaturatedInsertIsNoOp ==
    [][\A t \in Threads :
          /\ SaturatedInsert(t) =>
                /\ g_sampled_addrs_poisson' = g_sampled_addrs_poisson
                /\ fault' = "none"
                /\ Len(stack'[t]) = Len(stack[t])
                /\ stack'[t][Len(stack'[t])].pc \in {"emit", "mark_lock_hash"}
          /\ ( /\ Returns(t)
               /\ lastRet'[t].op = "malloc"
               /\ lastRet'[t].ret # NULL
               /\ alloc'[lastRet'[t].ret].marked
               /\ ~alloc'[lastRet'[t].ret].inserted ) =>
                /\ lastRet'[t].emitted = 1
                /\ Printed.kind = "MALLOC"
                /\ Printed.addr = lastRet'[t].ret
          /\ ( /\ Returns(t)
               /\ lastRet'[t].op = "free"
               /\ lastRet'[t].wasLive
               /\ lastRet'[t].wasMarked
               /\ ~lastRet'[t].wasInserted ) =>
                /\ lastRet'[t].hostcalls = <<lastRet'[t].ptr>>
                /\ lastRet'[t].emitted = IF g_combined_mode THEN 1 ELSE 0
                /\ \A i \in 1 .. Len(out) :
                      (out[i].kind = "FREE" /\ out[i].addr = lastRet'[t].ptr
                       /\ \A j \in i + 1 .. Len(out) :
                              out[j].addr # lastRet'[t].ptr)
                      => out[i].combined /\ out[i].pois_tracked = 0]_vars

\* The program has released an address whose insertion found the chain
\* saturated.
C24_Witness ==
    \E t \in Threads :
        /\ lastRet[t].op = "free"
        /\ lastRet[t].wasLive
        /\ lastRet[t].wasMarked
        /\ ~lastRet[t].wasInserted
        /\ lastRet[t].wasEmitted

\* The number of records of a kind printed so far.
Count(kind) == Cardinality({i \in 1 .. Len(out) : out[i].kind = kind})

\* C25: in single-scheme Poisson mode, at every moment of every run (several
\* threads, addresses given out again, entries left behind in the set, probe
\* chains that are full), no more FREE records have been printed than MALLOC
\* records.
C25_FreesAtMostMallocs ==
    (~g_combined_mode /\ g_scheme = "SCHEME_POISSON")
        => Count("FREE") <= Count("MALLOC")

\* Poisson mode: a FREE record has been printed for an allocation that had
\* no MALLOC record (its address was still in the set from an earlier
\* allocation).
C25_Witness ==
    /\ PoissonMode
    /\ \E t \in Threads :
          /\ lastRet[t].op = "free"
          /\ lastRet[t].wasLive
          /\ ~lastRet[t].wasEmitted
          /\ lastRet[t].emitted = 1

\* The latest MALLOC record printed for address a (there is one).
LastMalloc(a) ==
    LET is == {i \in 1 .. Len(out) : out[i].kind = "MALLOC" /\ out[i].addr = a}
    IN  out[CHOOSE i \in is : \A j \in is : j <= i]

\* Thread t prints the record of a call of op in the step.
Prints(t, op) == Moves(t) /\ Top(t).pc = "emit" /\ Top(t).op = op

\* C26: in combined mode every call of malloc from the program to which
\* real_malloc returned an address has printed exactly one MALLOC record
\* when it returns, and every call of free from the program with a non-null
\* address exactly one FREE record; a MALLOC record has pois_tracked 1
\* exactly when its Poisson weight is positive and hash_tracked 1 exactly
\* when the hash of its address matches the mask; the FREE record of an
\* address has the hash_tracked of the address's MALLOC record.
C26_CombinedRecords ==
    [][\A t \in Threads : g_combined_mode =>
          /\ ( /\ Returns(t)
               /\ ~lastRet'[t].nested
               /\ \/ lastRet'[t].op = "malloc" /\ lastRet'[t].ret # NULL
                  \/ lastRet'[t].op = "free" /\ lastRet'[t].ptr # NULL ) =>
                lastRet'[t].emitted = 1
          /\ Prints(t, "malloc") =>
                /\ Printed.kind = "MALLOC"
                /\ Printed.pois_tracked = 1 <=> Printed.pois_size > 0
                /\ Printed.hash_tracked = 1 <=> HashHit(Printed.addr)
          /\ Prints(t, "free") =>
                /\ Printed.kind = "FREE"
                /\ Printed.hash_tracked = LastMalloc(Printed.addr).hash_tracked]_vars

\* The Poisson sampler selects the allocation of thread t in the step.
PoissonSelects(t) ==
    /\ AllocStep(t)
    /\ PoissonCalled
    /\ hist'[t].weights > hist[t].weights

\* C27: when the Poisson sampler selects an allocation, with b the
\* accumulator after the size was added and (on the thread's first call) the
\* initial draw d0 was subtracted, and k the number of draws the loop made:
\* b >= 0, k >= 1, the reported weight is M * (b \div M + k), a positive
\* multiple of M, and the accumulator is left at (b % M) minus the sum of the
\* k draws.
C27_WeightCountsDraws ==
    [][\A t \in Threads : PoissonSelects(t) =>
          LET M    == g_poisson_mean
              k    == hist'[t].loops - hist[t].loops
              w    == hist'[t].weights - hist[t].weights
              dsum == hist'[t].draws - hist[t].draws
              acc  == tstate[t].pois_bytes_until_next + Top(t).size
          IN  \E d0 \in (IF tstate[t].pois_bytes_inited THEN {0} ELSE Draws) :
                 LET b == acc - d0
                 IN  /\ b >= 0
                     /\ k >= 1
                     /\ w > 0 /\ w % M = 0
                     /\ w = M * ((b \div M) + k)
                     /\ tstate'[t].pois_bytes_until_next = (b % M) - (dsum - d0)
                     /\ tstate'[t].pois_bytes_inited]_vars

\* An allocation has been selected with weight 6 = M * (1 + 2): the
\* accumulator held a whole M and the loop made two draws.
C27_Witness ==
    \E t \in Threads :
        /\ stack[t] # <<>>
        /\ Top(t).op = "malloc"
        /\ Top(t).pc = "mark_lock_poisson"
        /\ g_poisson_mean = 2
        /\ Top(t).pois_size = 6 \/ Top(t).reported_size = 6

\* Thread t is inside sample_poisson, before a draw.
InSampler(t) ==
    stack[t] # <<>> /\ Top(t).pc \in {"pois_first", "pois_loop"}

\* C28: with mean 1 or 2 (draws may be 0 with either), every call of
\* sample_poisson returns: a thread that is inside the sampler is eventually
\* out of it, given that the thread keeps running and that a strictly
\* positive draw eventually occurs.
C28_SamplerTerminates ==
    \A t \in Threads : InSampler(t) ~> ~InSampler(t)

\* With mean 1, a call of sample_poisson has returned after a loop of at
\* least three draws, some of them 0.
C28_Witness ==
    \E t \in Threads :
        /\ g_poisson_mean = 1
        /\ stack[t] # <<>>
        /\ Top(t).pc \in {"mark_lock_poisson"}
        /\ Top(t).loops >= 3
        /\ Top(t).drawn <= 2

\* The thread states sample_poisson can leave behind after n allocations on
\* a thread (sizes from Sizes, draws from Draws) with the given mean.
RECURSIVE SamplerStatesAfter(_, _)
SamplerStatesAfter(n, mean) ==
    IF n = 0 THEN {InitTState}
    ELSE LET calls == {x \in SamplerStatesAfter(n - 1, mean) \X Sizes \X DrawSeqs :
                          LET r == sample_poisson(AddSize(x[1], x[2]), mean, x[3])
                          IN  r.ok /\ r.used = Len(x[3])}
         IN  {sample_poisson(AddSize(x[1], x[2]), mean, x[3]).ts : x \in calls}

\* C29: once the process is configured to call sample_poisson, there is a
\* state of a thread, after one to MaxPrior allocations on it, in which an
\* allocation of size 0 is selected by the Poisson sampler (sample_poisson
\* returns a positive weight for some draws) with the configured mean.
C29_ZeroSizeFiresAfterAllocation ==
    (g_initialized /\ PoissonCalled) =>
        \E n \in 1 .. MaxPrior :
            \E ts \in SamplerStatesAfter(n, g_poisson_mean) : \E ds \in DrawSeqs :
                LET r == sample_poisson(AddSize(ts, 0), g_poisson_mean, ds)
                IN  r.ok /\ r.used = Len(ds) /\ r.ret > 0

\* Thread t makes its first call's initial draw in the step.
FirstDrawStep(t) == Moves(t) /\ Top(t).pc = "pois_first"

\* Thread t is inside sample_poisson after the step.
InSamplerAfter(t) ==
    /\ Len(stack'[t]) = Len(stack[t])
    /\ stack'[t][Len(stack'[t])].pc \in {"pois_first", "pois_loop"}

\* The accumulator after the initial draw: the value stored if the sampler
\* has returned, the value the loop starts from (nsamples * M + the
\* remainder) if it has not.
AfterFirstDraw(t) ==
    IF InSamplerAfter(t)
    THEN stack'[t][Len(stack'[t])].nsamples * g_poisson_mean
            + stack'[t][Len(stack'[t])].remaining_bytes
    ELSE tstate'[t].pois_bytes_until_next

\* C30: on a thread's first call, sample_poisson makes one draw, subtracts it
\* from the accumulator and marks the state initialised; if the accumulator
\* is still non-negative after the draw, sample_poisson returns 0: it does
\* not enter the loop and the allocation gets no weight.
C30_FirstCallReturnsZero ==
    [][\A t \in Threads : FirstDrawStep(t) =>
          /\ tstate'[t].pois_bytes_inited
          /\ tstate'[t].rng_state = tstate[t].rng_state + 1
          /\ \E d \in LoopDraws :
                AfterFirstDraw(t) = Top(t).remaining_bytes - d
          /\ AfterFirstDraw(t) >= 0 =>
                /\ ~InSamplerAfter(t)
                /\ hist'[t].weights = hist[t].weights]_vars

\* C31: when the accumulator, the size added, is negative on entry to
\* sample_poisson, the sampler returns 0 and changes nothing: the allocation
\* gets no weight, the accumulator stays at that value, the initialised flag
\* and the RNG state are as before and no draw is made.
C31_NegativeEntryReturnsZero ==
    [][\A t \in Threads :
          LET PoissonEntry ==
                  tstate[t].pois_bytes_until_next + Top(t).size
          IN
          (AllocStep(t) /\ PoissonCalled /\ PoissonEntry < 0) =>
              /\ hist'[t].weights = hist[t].weights
              /\ hist'[t].loops = hist[t].loops
              /\ hist'[t].draws = hist[t].draws
              /\ tstate'[t].pois_bytes_until_next = PoissonEntry
              /\ tstate'[t].pois_bytes_inited = tstate[t].pois_bytes_inited
              /\ tstate'[t].rng_state = tstate[t].rng_state
              /\ tstate'[t].rng_init = tstate[t].rng_init]_vars

\* In single-scheme Poisson mode a thread whose sampler fired before has
\* allocated 0 bytes with a negative accumulator: the call returned the
\* address with nothing printed and the accumulator is still negative.
C31_Witness ==
    \E t \in Threads :
        /\ g_scheme = "SCHEME_POISSON" /\ ~g_combined_mode
        /\ lastRet[t].op = "malloc" /\ lastRet[t].ret # NULL
        /\ lastRet[t].size = 0 /\ lastRet[t].emitted = 0
        /\ hist[t].weights > 0
        /\ tstate[t].pois_bytes_inited
        /\ tstate[t].pois_bytes_until_next < 0

\* C32: on every thread the weights reported by the hash sampler so far plus
\* the current hash_running_bytes equal the total size of the thread's
\* successful allocations; and a fire reports the sizes of the successful
\* allocations since the previous fire, this one included (the total after
\* the step less what earlier fires reported) and leaves the running bytes
\* at 0.
C32_HashWeightsAccountForSizes ==
    [][\A t \in Threads :
          /\ hist'[t].hashw + tstate'[t].hash_running_bytes = hist'[t].sizes
          /\ (AllocStep(t) /\ HashFires(t)) =>
                /\ hist'[t].hashw - hist[t].hashw
                       = hist'[t].sizes - hist[t].hashw
                /\ hist'[t].hashw - hist[t].hashw
                       = tstate[t].hash_running_bytes + Top(t).size
                /\ tstate'[t].hash_running_bytes = 0]_vars

\* A fire of the hash sampler has reported 6 bytes: the 3 bytes of its own
\* allocation and the 3 of the allocation before it, which did not fire.
C32_Witness ==
    \E t \in Threads :
        /\ HashSamplerRuns
        /\ hist[t].hashw = 6 /\ hist[t].sizes = 6
        /\ tstate[t].hash_running_bytes = 0

\* The probe chain of ptr has an empty slot.
HasFreeSlot(set, ptr) ==
    \E i \in 0 .. MAX_PROBE - 1 : Slot(set, ProbeSlot(ptr, i)) = NULL

\* The three laws of the selected-address set for one set and one address.
SetLaws(set, ptr) ==
    LET once    == mark_sampled(set, ptr)
        removed == was_sampled_poisson(once, ptr)
        probed  == was_sampled_poisson(set, ptr)
    IN  /\ mark_sampled(once, ptr) = once
        /\ (ptr \notin Held(set) /\ HasFreeSlot(set, ptr)) =>
              removed.found /\ removed.set = set
        /\ ~probed.found => probed.set = set

\* The addresses the laws are checked for: the two addresses of the small
\* heap, or the first and the last two of the large one.
LawAddrs == Heap \cap (Addrs \cup SatFrees)

\* C33: for the selected-address set in any state the process reaches and
\* an address of the heap: inserting the address twice in a row leaves the
\* set as inserting it once does; inserting an address that is absent, when
\* its probe chain has an empty slot, and then probing for it finds it and
\* leaves the set as it was before the insert; a probe that does not find
\* the address leaves the set unchanged.
C33_SetLaws ==
    /\ \A ptr \in LawAddrs : SetLaws(g_sampled_addrs_poisson, ptr)
    /\ \A ptr \in LawAddrs :
          mark_sampled(mark_sampled(g_sampled_addrs_hash, ptr), ptr)
              = mark_sampled(g_sampled_addrs_hash, ptr)

\* The Poisson set holds one of the addresses and another is absent from it
\* with an empty slot in its chain, 98 slots of which are taken.
C33_Witness ==
    /\ Cardinality(DOMAIN g_sampled_addrs_poisson) = MAX_PROBE - 2
    /\ \E ptr \in LawAddrs : ptr \in Held(g_sampled_addrs_poisson)
    /\ \E ptr \in LawAddrs : /\ ptr \notin Held(g_sampled_addrs_poisson)
                             /\ HasFreeSlot(g_sampled_addrs_poisson, ptr)

\* C34: in every reachable state of the Poisson selected-address set each
\* address occupies at most one slot.
C34_AddressInOneSlot ==
    \A ptr \in Held(g_sampled_addrs_poisson) :
        Cardinality({k \in DOMAIN g_sampled_addrs_poisson :
                        g_sampled_addrs_poisson[k] = ptr}) <= 1

\* C35: whenever malloc returns an address to its caller in a mode that calls
\* sample_poisson (single-scheme Poisson or combined), the thread's Poisson
\* accumulator is strictly negative.
C35_AccumulatorNegativeAtReturn ==
    [][\A t \in Threads :
          ( /\ Returns(t)
            /\ lastRet'[t].op = "malloc"
            /\ lastRet'[t].ret # NULL
            /\ PoissonCalled ) =>
              tstate'[t].pois_bytes_until_next < 0]_vars

\* In combined mode a malloc whose allocation the Poisson sampler selected
\* has returned after a first allocation of 0 bytes, and the accumulator is
\* negative.
C35_Witness ==
    \E t \in Threads :
        /\ g_combined_mode
        /\ lastRet[t].op = "malloc" /\ lastRet[t].ret # NULL
        /\ lastRet[t].n = 2
        /\ hist[t].weights > 0 /\ hist[t].sizes = 3
        /\ tstate[t].pois_bytes_until_next < 0

\* The fields of the thread state that sample_poisson reads and writes.
PoissonPart(ts) ==
    <<ts.pois_bytes_until_next, ts.pois_bytes_inited, ts.rng_state,
      ts.rng_init>>

\* C36: an allocation in combined mode gets, for the same address, size and
\* draws, the Poisson decision and weight single-scheme Poisson mode gives
\* it and the hash decision and weight single-scheme hash mode gives it, and
\* leaves the state of either sampler as that mode leaves it; the step the
\* thread takes is one of these outcomes.  In the single-scheme modes the
\* accumulator of the sampler that is not called still grows by the size of
\* every successful allocation, and nothing else of that sampler changes.
C36_CombinedMatchesSingleSchemes ==
    [][\A t \in Threads : AllocStep(t) =>
          LET size == Top(t).size
              ptr  == HostRet(t)
              M    == g_poisson_mean
              \* The state the thread would be in had the process run in
              \* single-scheme Poisson mode on the same allocations and
              \* draws (sample_hash never ran, so hash_running_bytes holds
              \* the size of every successful allocation), and in
              \* single-scheme hash mode (sample_poisson never ran).
              PoissonTwin == [tstate[t] EXCEPT
                                 !.hash_running_bytes = hist[t].sizes]
              HashTwin == [InitTState EXCEPT
                              !.pois_bytes_until_next = hist[t].sizes,
                              !.hash_running_bytes =
                                  tstate[t].hash_running_bytes]
          IN  /\ g_combined_mode =>
                    /\ \A ds \in DrawSeqs :
                          LET c == CombinedSample(tstate[t], ptr, size, M, ds)
                              P == LegacySample("SCHEME_POISSON",
                                       PoissonTwin, ptr, size, M, ds)
                              H == LegacySample("SCHEME_STATELESS_HASH",
                                       HashTwin, ptr, size, M, <<>>)
                          IN  /\ c.ok = P.ok /\ c.used = P.used
                              /\ c.pois_size = P.ret
                              /\ (c.pois_size > 0) = (P.ret # 0)
                              /\ PoissonPart(c.ts) = PoissonPart(P.ts)
                              /\ c.hash_size = H.ret
                              /\ (c.hash_size > 0) = (H.ret # 0)
                              /\ c.ts.hash_running_bytes
                                     = H.ts.hash_running_bytes
                    /\ \E ds \in DrawSeqs :
                          LET c == CombinedSample(tstate[t], ptr, size, M, ds)
                          IN  /\ c.ok /\ c.used = Len(ds)
                              /\ tstate'[t] = c.ts
                              /\ hist'[t].weights - hist[t].weights
                                     = c.pois_size
                              /\ hist'[t].hashw - hist[t].hashw = c.hash_size
              /\ (~g_combined_mode /\ g_scheme = "SCHEME_POISSON") =>
                    tstate'[t].hash_running_bytes = hist'[t].sizes
              /\ (~g_combined_mode /\ g_scheme = "SCHEME_STATELESS_HASH") =>
                    /\ tstate'[t].pois_bytes_until_next = hist'[t].sizes
                    /\ PoissonPart(tstate'[t])
                           = PoissonPart([InitTState EXCEPT
                                 !.pois_bytes_until_next = hist'[t].sizes])
              /\ ~g_combined_mode =>
                    /\ tstate'[t].hash_running_bytes
                           \in {0, tstate[t].hash_running_bytes + size}
                    /\ g_scheme # "SCHEME_POISSON" =>
                          tstate'[t].pois_bytes_until_next
                              = tstate[t].pois_bytes_until_next + size]_vars

\* In combined mode both samplers have selected a thread's second
\* allocation: the Poisson sampler with a positive weight, the hash sampler
\* reporting the 6 bytes of both allocations.
C36_Witness ==
    \E t \in Threads :
        /\ g_combined_mode
        /\ stack[t] # <<>>
        /\ Top(t).pc = "mark_lock_poisson"
        /\ Top(t).pois_size > 0
        /\ Top(t).hash_size = 6
        /\ hist[t].weights > Top(t).pois_size

\* C37: an interposed call that one-time initialisation triggers on the
\* initialising thread never comes to pthread_mutex_lock(&g_init_lock), the
\* lock its own thread holds: it returns without waiting on it.  (The case:
\* thread t runs init_sampler under g_init_lock and an interposed call made
\* from inside it, by dlsym or getenv, is the innermost activation.)
C37_NestedInitCallDoesNotWait ==
    \A t \in Threads :
        ( /\ g_init_lock = t
          /\ Len(stack[t]) >= 2
          /\ Top(t).nested
          /\ stack[t][Len(stack[t]) - 1].pc \in {"init_resolve",
                                                  "init_config"} ) =>
            Top(t).pc # "init_lock"

(***************************************************************************)
(* The timing counters.                                                    *)
(***************************************************************************)
\* C38: with timing enabled and threads recording concurrently, in every
\* state samples_taken <= total_calls on each counter set, and once all calls
\* of record_timing on a set have completed its total_calls is the number of
\* recordings, its min_cycles the least and its max_cycles the greatest of the
\* recorded cycle values.
C38_TimingCountersExact ==
    LET U64Min(S) == CHOOSE m \in S : \A x \in S : ~U64Less(x, m)
        U64Max(S) == CHOOSE m \in S : \A x \in S : ~U64Less(m, x)
        \* Some thread is inside record_timing on the counter set s: called,
        \* not yet returned.
        Recording(s) ==
            \E t \in Threads : \E i \in DOMAIN stack[t] :
                /\ stack[t][i].stats = s
                /\ stack[t][i].pc \in {"rec_calls", "rec_cycles",
                                       "rec_samples", "rec_min_load",
                                       "rec_min_cas", "rec_max_load",
                                       "rec_max_cas"}
    IN
    g_timing_enabled =>
        \A s \in StatNames :
            /\ ~U64Less(g_timing[s].total_calls, g_timing[s].samples_taken)
            /\ ~Recording(s) =>
                  /\ g_timing[s].total_calls = U64(recorded[s].calls)
                  /\ recorded[s].calls > 0 =>
                        /\ g_timing[s].min_cycles = U64Min(recorded[s].vals)
                        /\ g_timing[s].max_cycles = U64Max(recorded[s].vals)

\* No call is in progress and two recordings of different values have
\* completed on one counter set, one of them of a selected allocation.
C38_Witness ==
    /\ g_timing_enabled
    /\ \A t \in Threads : stack[t] = <<>>
    /\ \E s \in StatNames :
          /\ recorded[s].calls = 2
          /\ Cardinality(recorded[s].vals) = 2
          /\ g_timing[s].samples_taken = U64(1)
          /\ g_timing[s].min_cycles # g_timing[s].max_cycles

\* C39: with SAMPLER_TIMING unset or different from "1", every step of the
\* timed build is a step of the untimed build from the same state (the same
\* sampler decisions, set updates, emitted records and host calls), timing
\* stays disabled and no timing counter leaves its initial value.
C39_TimingOffIsUntimedBuild ==
    [][env.timing # "1" =>
          /\ Next
          /\ ~g_timing_enabled'
          /\ g_timing' = [s \in StatNames |-> NoTiming]]_vars

\* With SAMPLER_TIMING=0 a selected allocation has been made and released
\* through the host allocator, both records are out, and the counters are
\* untouched.
C39_Witness ==
    /\ env.timing = "0"
    /\ Len(out) = 2
    /\ \A t \in Threads : stack[t] = <<>> /\ budget[t] = 0
    /\ \E t \in Threads : lastRet[t].op = "free" /\ lastRet[t].hostcalls # <<>>
    /\ \A a \in Heap : alloc[a].st = "free"
    /\ g_timing = [s \in StatNames |-> NoTiming]

(***************************************************************************)
(* The Poisson mean.                                                       *)
(***************************************************************************)
\* C40: once the ready flag is published the Poisson mean is strictly
\* positive, and it is the default 4096 when SAMPLER_POISSON_MEAN_BYTES is
\* unset, unparsable, zero or negative; sample_poisson is never called with a
\* mean of zero or less; the scheme, the combined flag and the mean never
\* change once the flag is published.
C40_MeanPositiveAndFrozen ==
    [][/\ g_initialized' =>
             /\ g_poisson_mean' > 0
             /\ (env.mean = "" \/ Atol(env.mean) <= 0) =>
                   g_poisson_mean' = DEFAULT_POISSON_MEAN
       /\ \A t \in Threads :
             (AllocStep(t) /\ PoissonCalled) => g_poisson_mean > 0
       /\ g_initialized =>
             /\ g_scheme' = g_scheme
             /\ g_combined_mode' = g_combined_mode
             /\ g_poisson_mean' = g_poisson_mean]_vars

\* The variable was set to zero, to a negative number or to text that is not
\* a number; the flag is published, the mean is the default, and the Poisson
\* sampler has run with it and selected an allocation.
C40_Witness ==
    /\ env.mean \in {"0", "-3", "abc"}
    /\ g_initialized
    /\ g_poisson_mean = DEFAULT_POISSON_MEAN
    /\ g_scheme = "SCHEME_POISSON"
    /\ \E t \in Threads : hist[t].sizes > 0 /\ hist[t].weights > 0

====
